---- MODULE Spec2Model ----
(***************************************************************************)
(* A model of the wordpressThemeJson plugin of roots/vite-plugin: the       *)
(* theme-block extractor, the token classifier and the theme.json builder,  *)
(* driven through the plugin's hooks.  The model follows the revision of    *)
(* index.ts that carries the legacy Tailwind config loader and the shade    *)
(* labels (src/unnamed/part_001); src/src/index.ts is an earlier revision   *)
(* of the same file whose extractor and merge step are the same code.       *)
(*                                                                         *)
(* A JavaScript string is a sequence of one-character strings, so that the  *)
(* scanner, the regular expressions, split, trim, toLowerCase and includes  *)
(* are computed character by character as the code computes them.  String   *)
(* positions are 1-based here and 0-based in the code.                      *)
(***************************************************************************)
EXTENDS Integers, Sequences, FiniteSets, TLC

(***************************************************************************)
(* Strings are sequences of one-character strings: "a{" is <<"a", "{">>.    *)
(***************************************************************************)
RECURSIVE Cat(_)
Cat(ss) == IF ss = <<>> THEN <<>> ELSE Head(ss) \o Cat(Tail(ss))

\* s.slice(from, to) with 1-based inclusive bounds, clamped to the string.
Slice(s, from, to) ==
  LET a == IF from < 1 THEN 1 ELSE from
      b == IF to > Len(s) THEN Len(s) ELSE to
  IN IF a > b THEN <<>> ELSE SubSeq(s, a, b)

\* s.startsWith(w, position p)
HasAt(s, p, w) == p >= 1 /\ p + Len(w) - 1 <= Len(s) /\ SubSeq(s, p, p + Len(w) - 1) = w

\* s.includes(w)
Includes(s, w) == \E p \in 1..(Len(s) + 1) : HasAt(s, p, w)

\* s.endsWith(w)
EndsWith(s, w) == Len(s) >= Len(w) /\ HasAt(s, Len(s) - Len(w) + 1, w)

\* \s of a regular expression, and the characters String.prototype.trim removes
IsSpace(c) == c \in {" ", "\n", "\t", "\r"}

\* the position after the longest run of white space that starts at p
SkipSpaces(s, p) ==
  CHOOSE q \in p..(Len(s) + 1) :
    /\ \A r \in p..(q - 1) : IsSpace(s[r])
    /\ q = Len(s) + 1 \/ ~IsSpace(s[q])

\* s.trim()
Trim(s) ==
  IF \A i \in 1..Len(s) : IsSpace(s[i]) THEN <<>>
  ELSE LET first == CHOOSE i \in 1..Len(s) :
                      ~IsSpace(s[i]) /\ \A j \in 1..(i - 1) : IsSpace(s[j])
           last == CHOOSE i \in 1..Len(s) :
                     ~IsSpace(s[i]) /\ \A j \in (i + 1)..Len(s) : IsSpace(s[j])
       IN SubSeq(s, first, last)

LowerAlpha == <<"a", "b", "c", "d", "e", "f", "g", "h", "i", "j", "k", "l", "m",
                "n", "o", "p", "q", "r", "s", "t", "u", "v", "w", "x", "y", "z">>
UpperAlpha == <<"A", "B", "C", "D", "E", "F", "G", "H", "I", "J", "K", "L", "M",
                "N", "O", "P", "Q", "R", "S", "T", "U", "V", "W", "X", "Y", "Z">>

LowerChar(c) ==
  IF \E i \in 1..Len(UpperAlpha) : UpperAlpha[i] = c
  THEN LowerAlpha[CHOOSE i \in 1..Len(UpperAlpha) : UpperAlpha[i] = c]
  ELSE c

UpperChar(c) ==
  IF \E i \in 1..Len(LowerAlpha) : LowerAlpha[i] = c
  THEN UpperAlpha[CHOOSE i \in 1..Len(LowerAlpha) : LowerAlpha[i] = c]
  ELSE c

\* s.toLowerCase()
ToLowerCase(s) == [i \in 1..Len(s) |-> LowerChar(s[i])]

\* s.charAt(0).toUpperCase() + s.slice(1)
Capitalize(s) == IF s = <<>> THEN <<>> ELSE <<UpperChar(s[1])>> \o Tail(s)

\* s.replace(/['"]/g, '')
StripQuotes(s) == SelectSeq(s, LAMBDA c : c \notin {"'", "\""})

\* the position of the first hyphen at or after p, or Len(s) + 1
NextHyphen(s, p) ==
  CHOOSE q \in p..(Len(s) + 1) :
    /\ \A r \in p..(q - 1) : s[r] # "-"
    /\ q = Len(s) + 1 \/ s[q] = "-"

RECURSIVE SplitFrom(_, _)
SplitFrom(s, p) ==
  LET q == NextHyphen(s, p)
      part == IF q > p THEN SubSeq(s, p, q - 1) ELSE <<>>
  IN IF q > Len(s) THEN <<part>> ELSE <<part>> \o SplitFrom(s, q + 1)

\* s.split('-')
SplitHyphen(s) == SplitFrom(s, 1)

(***************************************************************************)
(* Values that stand for JavaScript's null and undefined.                   *)
(***************************************************************************)
Null == [t |-> "null"]
Undefined == [t |-> "undefined"]
\* a string where the code's variable may also hold null or undefined
JStr(s) == [t |-> "string", v |-> s]
\* !x for such a variable: null, undefined and the empty string are falsy
Falsy(x) == x.t \in {"null", "undefined"} \/ (x.t = "string" /\ x.v = <<>>)

(***************************************************************************)
(* extractThemeContent                                                      *)
(***************************************************************************)

\* One attempt of /@(?:layer\s+)?theme\s*{/s at position p: the position of the
\* opening brace, or 0 when the pattern does not match there.
OpenerEndAt(css, p) ==
  IF ~HasAt(css, p, <<"@">>) THEN 0
  ELSE LET afterLayer ==
             IF HasAt(css, p + 1, <<"l", "a", "y", "e", "r">>) /\ SkipSpaces(css, p + 6) > p + 6
             THEN SkipSpaces(css, p + 6)
             ELSE 0
           themeAt ==
             IF afterLayer # 0 /\ HasAt(css, afterLayer, <<"t", "h", "e", "m", "e">>) THEN afterLayer
             ELSE IF HasAt(css, p + 1, <<"t", "h", "e", "m", "e">>) THEN p + 1
             ELSE 0
           braceAt == IF themeAt = 0 THEN 0 ELSE SkipSpaces(css, themeAt + 5)
       IN IF themeAt # 0 /\ HasAt(css, braceAt, <<"{">>) THEN braceAt ELSE 0

\* css.match(...): the first position the pattern matches at, or 0 (no match).
ThemeMatchStart(css) ==
  IF \E p \in 1..Len(css) : OpenerEndAt(css, p) # 0
  THEN CHOOSE p \in 1..Len(css) :
         /\ OpenerEndAt(css, p) # 0
         /\ \A q \in 1..(p - 1) : OpenerEndAt(css, q) = 0
  ELSE 0

\* themeMatch: Null, or the match's 0-based index and its text (themeMatch[0]).
MatchAt(css, p) ==
  IF p = 0 THEN [t |-> "null", index |-> 0, text |-> <<>>]
  ELSE [t |-> "match", index |-> p - 1, text |-> SubSeq(css, p, OpenerEndAt(css, p))]

ThemeMatch(css) == MatchAt(css, ThemeMatchStart(css))

\* How a call ends: it returns a value or throws an Error with a message.
Returned(v) == [t |-> "returned", value |-> v, message |-> <<>>]
Threw(message) == [t |-> "threw", value |-> Undefined, message |-> message]

UnclosedMessage(blockType) ==
  <<"U", "n", "c", "l", "o", "s", "e", "d", " ">> \o blockType \o <<" ", "b", "l", "o", "c", "k", " ", "-", " ", "m", "i", "s", "s", "i", "n", "g", " ", "c", "l", "o", "s", "i", "n", "g", " ", "b", "r", "a", "c", "e">>

\* The state of the scan before it reads a position: whether it is in the outer
\* loop ("code"), in the loop of a string literal or in the loop of a comment,
\* how many further positions a `position += 2` has already passed, the brace
\* count, and the position the loop returned at (0: it has not returned).
ScanStart ==
  [mode |-> "code", quote |-> "", skip |-> 0, braceCount |-> 1, returnedAt |-> 0]

\* The scan when a backslash counts inside strings only.
ScanStep_EscapeOnlyInStrings(css, state, position) ==
  IF state.returnedAt # 0 THEN state
  ELSE IF state.skip > 0 THEN [state EXCEPT !.skip = @ - 1]
  ELSE IF state.mode = "string"
  THEN IF css[position] = "\\" THEN [state EXCEPT !.skip = 1]
       ELSE IF css[position] = state.quote THEN [state EXCEPT !.mode = "code"]
       ELSE state
  ELSE IF state.mode = "comment"
  THEN IF Slice(css, position, position + 1) = <<"*", "/">>
       THEN [state EXCEPT !.mode = "code", !.skip = 1]
       ELSE state
  ELSE IF css[position] \in {"'", "\""}
  THEN [state EXCEPT !.mode = "string", !.quote = css[position]]
  ELSE IF Slice(css, position, position + 1) = <<"/", "*">>
  THEN [state EXCEPT !.mode = "comment", !.skip = 1]
  ELSE LET count == IF css[position] = "{" THEN state.braceCount + 1
                    ELSE IF css[position] = "}" THEN state.braceCount - 1
                    ELSE state.braceCount
       IN IF count = 0
          THEN [state EXCEPT !.braceCount = count, !.returnedAt = position]
          ELSE [state EXCEPT !.braceCount = count]

\* One position of the while loops of extractThemeContent.
ScanStep(css, state, position) ==
  IF state.returnedAt # 0 THEN state
  ELSE IF state.skip > 0 THEN [state EXCEPT !.skip = @ - 1]
  ELSE IF state.mode = "string"
  THEN IF css[position] = "\\" THEN [state EXCEPT !.skip = 1]
       ELSE IF css[position] = state.quote THEN [state EXCEPT !.mode = "code"]
       ELSE state
  ELSE IF state.mode = "comment"
  THEN IF Slice(css, position, position + 1) = <<"*", "/">>
       THEN [state EXCEPT !.mode = "code", !.skip = 1]
       ELSE state
  ELSE IF css[position] = "\\" THEN [state EXCEPT !.skip = 1]
  ELSE IF css[position] \in {"'", "\""}
  THEN [state EXCEPT !.mode = "string", !.quote = css[position]]
  ELSE IF Slice(css, position, position + 1) = <<"/", "*">>
  THEN [state EXCEPT !.mode = "comment", !.skip = 1]
  ELSE LET count == IF css[position] = "{" THEN state.braceCount + 1
                    ELSE IF css[position] = "}" THEN state.braceCount - 1
                    ELSE state.braceCount
       IN IF count = 0
          THEN [state EXCEPT !.braceCount = count, !.returnedAt = position]
          ELSE [state EXCEPT !.braceCount = count]

RECURSIVE ScanRange(_, _, _, _)
\* the positions from..to read in order, halving the range
ScanRange(css, state, from, to) ==
  IF state.returnedAt # 0 \/ from > to THEN state
  ELSE IF from = to THEN ScanStep(css, state, from)
  ELSE LET middle == (from + to) \div 2
       IN ScanRange(css, ScanRange(css, state, from, middle), middle + 1, to)

\* The while loop of extractThemeContent from startIndex on, and what follows it.
AfterScan(css, themeMatch, startIndex, final) ==
  IF final.returnedAt # 0
  THEN Returned(JStr(Slice(css, startIndex, final.returnedAt - 1)))
  ELSE Threw(UnclosedMessage(Trim(themeMatch.text)))

ScanBlock(css, themeMatch, startIndex) ==
  AfterScan(css, themeMatch, startIndex, ScanRange(css, ScanStart, startIndex, Len(css)))

\* extractThemeContent(css): Returned(Null), Returned(content) or Threw(message).
\* `!themeMatch?.index` is true without a match and also for a match at index 0.
AfterMatch(css, themeMatch) ==
  IF themeMatch.t = "null" \/ themeMatch.index = 0
  THEN Returned(Null)
  ELSE ScanBlock(css, themeMatch, themeMatch.index + Len(themeMatch.text) + 1)

extractThemeContent(css) == AfterMatch(css, ThemeMatch(css))

(***************************************************************************)
(* extractVariables and the three patterns                                  *)
(***************************************************************************)

\* the position of the first ":" at or after p, or 0
FirstColon(s, p) ==
  IF \E q \in p..Len(s) : s[q] = ":"
  THEN CHOOSE q \in p..Len(s) : s[q] = ":" /\ \A r \in p..(q - 1) : s[r] # ":"
  ELSE 0

\* the last position of the longest run of [^;}] that starts at p
ValueEnd(s, p) ==
  CHOOSE q \in p..Len(s) :
    /\ \A r \in p..q : s[r] \notin {";", "}"}
    /\ q = Len(s) \/ s[q + 1] \in {";", "}"}

NoMatch == [t |-> "null", name |-> <<>>, value |-> <<>>, lastIndex |-> 0]

\* One attempt of /--<prefix>-([^:]+):\s*([^;}]+)[;}]?/ at position p.  ([^:]+)
\* runs to the first colon; \s* gives its last character back to ([^;}]+) when
\* nothing else is left for that group; lastIndex is where the next exec starts.
PatternAt(prefix, s, p) ==
  IF ~HasAt(s, p, prefix) THEN NoMatch
  ELSE LET nameAt == p + Len(prefix)
           colon == FirstColon(s, nameAt)
       IN IF colon = 0 \/ colon = nameAt THEN NoMatch
          ELSE LET afterSpaces == SkipSpaces(s, colon + 1)
                   valueAt ==
                     IF afterSpaces <= Len(s) /\ s[afterSpaces] \notin {";", "}"}
                     THEN afterSpaces
                     ELSE IF afterSpaces > colon + 1 THEN afterSpaces - 1
                     ELSE 0
               IN IF valueAt = 0 THEN NoMatch
                  ELSE LET valueEnd == ValueEnd(s, valueAt)
                           closed == valueEnd + 1 <= Len(s) /\ s[valueEnd + 1] \in {";", "}"}
                       IN [t |-> "match",
                           name |-> SubSeq(s, nameAt, colon - 1),
                           value |-> SubSeq(s, valueAt, valueEnd),
                           lastIndex |-> IF closed THEN valueEnd + 2 ELSE valueEnd + 1]

\* regex.exec(content) from lastIndex: the leftmost match at or after it
ExecFrom(prefix, s, lastIndex) ==
  LET starts == {p \in lastIndex..Len(s) : PatternAt(prefix, s, p).t = "match"}
  IN IF starts = {} THEN NoMatch
     ELSE PatternAt(prefix, s, CHOOSE p \in starts : \A q \in starts : p <= q)

RECURSIVE ExecLoop(_, _, _)
ExecLoop(prefix, s, lastIndex) ==
  LET match == ExecFrom(prefix, s, lastIndex)
  IN IF match.t # "match" THEN <<>>
     ELSE <<[name |-> match.name, value |-> Trim(match.value)]>>
          \o ExecLoop(prefix, s, match.lastIndex)

\* extractVariables(regex, content): the [name, value.trim()] pairs, in order
extractVariables(prefix, content) ==
  IF Falsy(content) THEN <<>> ELSE ExecLoop(prefix, content.v, 1)

COLOR == <<"-", "-", "c", "o", "l", "o", "r", "-">>
FONT_FAMILY == <<"-", "-", "f", "o", "n", "t", "-">>
FONT_SIZE == <<"-", "-", "t", "e", "x", "t", "-">>

(***************************************************************************)
(* !Number.isNaN(Number(s)): s is white space around a numeric literal      *)
(***************************************************************************)
DecimalDigits == {"0", "1", "2", "3", "4", "5", "6", "7", "8", "9"}
HexDigits == DecimalDigits \cup {"a", "b", "c", "d", "e", "f", "A", "B", "C", "D", "E", "F"}

AllIn(s, set) == \A i \in 1..Len(s) : s[i] \in set

\* how many decimal digits s starts with
LeadingDigits(s) ==
  CHOOSE n \in 0..Len(s) :
    /\ \A i \in 1..n : s[i] \in DecimalDigits
    /\ n = Len(s) \/ s[n + 1] \notin DecimalDigits

Drop(s, n) == SubSeq(s, n + 1, Len(s))

IsExponentOrEmpty(s) ==
  \/ s = <<>>
  \/ /\ Head(s) \in {"e", "E"}
     /\ LET r == Tail(s)
            digits == IF r # <<>> /\ Head(r) \in {"+", "-"} THEN Tail(r) ELSE r
        IN digits # <<>> /\ AllIn(digits, DecimalDigits)

IsUnsignedDecimal(s) ==
  \/ s = <<"I", "n", "f", "i", "n", "i", "t", "y">>
  \/ LET n == LeadingDigits(s)
         rest == Drop(s, n)
     IN IF rest # <<>> /\ Head(rest) = "."
        THEN LET m == LeadingDigits(Tail(rest))
             IN n + m >= 1 /\ IsExponentOrEmpty(Drop(Tail(rest), m))
        ELSE n >= 1 /\ IsExponentOrEmpty(rest)

IsNonDecimalInteger(s) ==
  /\ Len(s) >= 3
  /\ s[1] = "0"
  /\ \/ s[2] \in {"x", "X"} /\ AllIn(Drop(s, 2), HexDigits)
     \/ s[2] \in {"o", "O"} /\ AllIn(Drop(s, 2), {"0", "1", "2", "3", "4", "5", "6", "7"})
     \/ s[2] \in {"b", "B"} /\ AllIn(Drop(s, 2), {"0", "1"})

IsNumber(s) ==
  LET x == Trim(s)
  IN \/ x = <<>>
     \/ IsNonDecimalInteger(x)
     \/ IsUnsignedDecimal(IF Head(x) \in {"+", "-"} THEN Tail(x) ELSE x)

(***************************************************************************)
(* The entries of the three categories                                      *)
(***************************************************************************)

\* `shade in config.shadeLabels`, behind `config.shadeLabels &&`
HasShadeLabel(shadeLabels, shade) ==
  shadeLabels.t = "object" /\ shade \in DOMAIN shadeLabels.v

\* The colour map callback of the earlier revision: no capital, no label, and
\* the slug taken from the display name.
ColorEntry_Earlier(shadeLabels, name, value) ==
  LET parts == SplitHyphen(name)
      displayName ==
        IF Len(parts) >= 2 /\ parts[2] # <<>> /\ IsNumber(parts[2])
        THEN parts[1] \o <<"-">> \o parts[2]
        ELSE name
  IN [name |-> displayName, slug |-> ToLowerCase(displayName), color |-> value]

\* ColorEntry with the slug taken from the display name
ColorEntry_SlugOfDisplayName(shadeLabels, name, value) ==
  LET parts == SplitHyphen(name)
      capitalizedColor == Capitalize(parts[1])
      displayName ==
        IF Len(parts) >= 2 /\ parts[2] # <<>> /\ IsNumber(parts[2])
        THEN IF HasShadeLabel(shadeLabels, parts[2])
             THEN shadeLabels.v[parts[2]] \o <<" ">> \o capitalizedColor
             ELSE capitalizedColor \o <<" ", "(">> \o parts[2] \o <<")">>
        ELSE capitalizedColor
  IN [name |-> displayName, slug |-> ToLowerCase(displayName), color |-> value]

\* The body of the colour map callback: the entry of one [name, value] pair.
ColorEntry(shadeLabels, name, value) ==
  LET parts == SplitHyphen(name)
      colorName == parts[1]
      shade == IF Len(parts) >= 2 THEN JStr(parts[2]) ELSE Undefined
      capitalizedColor == Capitalize(colorName)
      displayName ==
        IF ~Falsy(shade) /\ IsNumber(shade.v)
        THEN IF HasShadeLabel(shadeLabels, shade.v)
             THEN shadeLabels.v[shade.v] \o <<" ">> \o capitalizedColor
             ELSE capitalizedColor \o <<" ", "(">> \o shade.v \o <<")">>
        ELSE capitalizedColor
  IN [name |-> displayName, slug |-> ToLowerCase(name), color |-> value]

NotWildcard(variable) == ~EndsWith(variable.name, <<"-", "*">>)

\* the block-sourced half of colorEntries
BlockColorEntries(shadeLabels, themeContent) ==
  LET kept == SelectSeq(extractVariables(COLOR, themeContent), NotWildcard)
  IN [i \in 1..Len(kept) |-> ColorEntry(shadeLabels, kept[i].name, kept[i].value)]

invalidFontProps ==
  << <<"f", "e", "a", "t", "u", "r", "e", "-", "s", "e", "t", "t", "i", "n", "g", "s">>, <<"v", "a", "r", "i", "a", "t", "i", "o", "n", "-", "s", "e", "t", "t", "i", "n", "g", "s">>,
     <<"f", "a", "m", "i", "l", "y">>, <<"s", "i", "z", "e">>, <<"s", "m", "o", "o", "t", "h", "i", "n", "g">>, <<"s", "t", "y", "l", "e">>, <<"w", "e", "i", "g", "h", "t">>,
     <<"s", "t", "r", "e", "t", "c", "h">> >>

\* ValidFontName comparing the whole name with the listed words
ValidFontName_WholeName(variable) ==
  ~\E i \in 1..Len(invalidFontProps) : variable.name = invalidFontProps[i]

ValidFontName(variable) ==
  ~\E i \in 1..Len(invalidFontProps) : Includes(variable.name, invalidFontProps[i])

FontFamilyEntry(variable) ==
  [name |-> variable.name, slug |-> ToLowerCase(variable.name),
   fontFamily |-> StripQuotes(variable.value)]

\* the block-sourced half of fontFamilyEntries
BlockFontFamilyEntries(themeContent) ==
  LET kept == SelectSeq(extractVariables(FONT_FAMILY, themeContent), ValidFontName)
  IN [i \in 1..Len(kept) |-> FontFamilyEntry(kept[i])]

NotLineHeight(variable) == ~Includes(variable.name, <<"l", "i", "n", "e", "-", "h", "e", "i", "g", "h", "t">>)

FontSizeEntry(variable) ==
  [name |-> variable.name, slug |-> ToLowerCase(variable.name), size |-> variable.value]

\* the block-sourced half of fontSizeEntries
BlockFontSizeEntries(themeContent) ==
  LET kept == SelectSeq(extractVariables(FONT_SIZE, themeContent), NotLineHeight)
  IN [i \in 1..Len(kept) |-> FontSizeEntry(kept[i])]

(***************************************************************************)
(* The legacy Tailwind config.  An object whose key order matters           *)
(* (Object.entries) is a sequence of [key, value] pairs in that order.      *)
(***************************************************************************)
Dict(pairs) == [t |-> "dict", v |-> pairs]
List(items) == [t |-> "array", v |-> items]

DictHas(pairs, key) == \E i \in 1..Len(pairs) : pairs[i].key = key
DictGet(pairs, key) == pairs[CHOOSE i \in 1..Len(pairs) : pairs[i].key = key].value

PairsOf(x) == IF x.t = "dict" THEN x.v ELSE <<>>

NotIn(pairs, keep) == SelectSeq(pairs, LAMBDA p : ~DictHas(keep, p.key))

\* { ...a, ...b }: the keys of a in their order, b's value where b has the key,
\* then the keys only b has
DictSpread(a, b) ==
  LET pa == PairsOf(a)
      pb == PairsOf(b)
  IN Dict([i \in 1..Len(pa) |->
             IF DictHas(pb, pa[i].key)
             THEN [key |-> pa[i].key, value |-> DictGet(pb, pa[i].key)]
             ELSE pa[i]]
          \o NotIn(pb, pa))

\* mergeThemeWithExtend(theme)
mergeThemeWithExtend(theme) ==
  IF theme.extend.t = "undefined" THEN theme
  ELSE [theme EXCEPT !.colors = DictSpread(theme.colors, theme.extend.colors),
                     !.fontFamily = DictSpread(theme.fontFamily, theme.extend.fontFamily),
                     !.fontSize = DictSpread(theme.fontSize, theme.extend.fontSize)]

RECURSIVE flattenColors(_)
\* flattenColors(colors) on the entries of colors
flattenColors(pairs) ==
  IF pairs = <<>> THEN <<>>
  ELSE LET name == Head(pairs).key
           value == Head(pairs).value
           here ==
             IF value.t = "string" THEN <<[name |-> name, value |-> value.v]>>
             ELSE IF value.t = "dict"
             THEN LET shades == SelectSeq(value.v, LAMBDA p : p.value.t = "string")
                  IN [i \in 1..Len(shades) |->
                        [name |-> name \o <<"-">> \o shades[i].key,
                         value |-> shades[i].value.v]]
             ELSE <<>>
       IN here \o flattenColors(Tail(pairs))

RECURSIVE Join(_, _)
\* array.join(separator)
Join(items, separator) ==
  IF items = <<>> THEN <<>>
  ELSE IF Len(items) = 1 THEN items[1]
  ELSE items[1] \o separator \o Join(Tail(items), separator)

\* processFontFamilies(fonts)
processFontFamilies(pairs) ==
  [i \in 1..Len(pairs) |->
     [name |-> pairs[i].key, slug |-> ToLowerCase(pairs[i].key),
      fontFamily |-> IF pairs[i].value.t = "array"
                     THEN Join(pairs[i].value.v, <<",", " ">>)
                     ELSE pairs[i].value.v]]

\* processFontSizes(sizes)
processFontSizes(pairs) ==
  [i \in 1..Len(pairs) |->
     [name |-> pairs[i].key, slug |-> ToLowerCase(pairs[i].key),
      size |-> IF pairs[i].value.t = "array" THEN pairs[i].value.v[1]
               ELSE pairs[i].value.v]]

FailedToLoad(configPath, cause) ==
  <<"F", "a", "i", "l", "e", "d", " ", "t", "o", " ", "l", "o", "a", "d", " ", "T", "a", "i", "l", "w", "i", "n", "d", " ", "c", "o", "n", "f", "i", "g", " ", "f", "r", "o", "m", " ">>
    \o configPath \o <<":", " ">> \o cause

\* loadTailwindConfig without its catch clause: the cause is thrown as it is
loadTailwindConfig_Unwrapped(configPath, imported) ==
  IF imported.t = "threw" THEN Threw(imported.message)
  ELSE LET resolvedConfig == imported.value
       IN IF resolvedConfig.theme.t = "object" /\ resolvedConfig.theme.extend.t # "undefined"
          THEN Returned([resolvedConfig EXCEPT !.theme = mergeThemeWithExtend(resolvedConfig.theme)])
          ELSE Returned(resolvedConfig)

\* loadTailwindConfig(configPath): `imported` is what import(absolutePath) does,
\* Threw(cause) or Returned(the module's default export)
loadTailwindConfig(configPath, imported) ==
  IF imported.t = "threw" THEN Threw(FailedToLoad(configPath, imported.message))
  ELSE LET resolvedConfig == imported.value
       IN IF resolvedConfig.theme.t = "object" /\ resolvedConfig.theme.extend.t # "undefined"
          THEN Returned([resolvedConfig EXCEPT !.theme = mergeThemeWithExtend(resolvedConfig.theme)])
          ELSE Returned(resolvedConfig)

\* resolvedTailwindConfig?.theme?.<field>, Undefined when a link is missing
ThemeField(resolvedTailwindConfig, field) ==
  IF resolvedTailwindConfig.t = "object" /\ resolvedTailwindConfig.theme.t = "object"
  THEN resolvedTailwindConfig.theme[field]
  ELSE Undefined

\* the config-sourced half of colorEntries
ConfigColorEntries(shadeLabels, resolvedTailwindConfig) ==
  LET colors == ThemeField(resolvedTailwindConfig, "colors")
      flat == IF colors.t = "dict" THEN flattenColors(colors.v) ELSE <<>>
  IN [i \in 1..Len(flat) |-> ColorEntry(shadeLabels, flat[i].name, flat[i].value)]

ConfigFontFamilyEntries(resolvedTailwindConfig) ==
  LET fonts == ThemeField(resolvedTailwindConfig, "fontFamily")
  IN IF fonts.t = "dict" THEN processFontFamilies(fonts.v) ELSE <<>>

ConfigFontSizeEntries(resolvedTailwindConfig) ==
  LET sizes == ThemeField(resolvedTailwindConfig, "fontSize")
  IN IF sizes.t = "dict" THEN processFontSizes(sizes.v) ELSE <<>>

\* colorEntries, fontFamilyEntries, fontSizeEntries: an array, or undefined
\* when the category is disabled
colorEntries(config, themeContent, resolvedTailwindConfig) ==
  IF ~config.disableTailwindColors
  THEN List(BlockColorEntries(config.shadeLabels, themeContent)
            \o ConfigColorEntries(config.shadeLabels, resolvedTailwindConfig))
  ELSE Undefined

fontFamilyEntries(config, themeContent, resolvedTailwindConfig) ==
  IF ~config.disableTailwindFonts
  THEN List(BlockFontFamilyEntries(themeContent)
            \o ConfigFontFamilyEntries(resolvedTailwindConfig))
  ELSE Undefined

fontSizeEntries(config, themeContent, resolvedTailwindConfig) ==
  IF ~config.disableTailwindFontSizes
  THEN List(BlockFontSizeEntries(themeContent)
            \o ConfigFontSizeEntries(resolvedTailwindConfig))
  ELSE Undefined

(***************************************************************************)
(* JSON documents.  An object of a document is a function from its keys to  *)
(* values; a value is tagged with its type.                                 *)
(***************************************************************************)
Object(f) == [t |-> "object", v |-> f]
Bool(b) == [t |-> "boolean", v |-> b]
Text(s) == [t |-> "text", v |-> s]
NoKeys == <<>>

\* o.k and o?.k: undefined when o is no object or has no such key
Prop(o, k) == IF o.t = "object" /\ k \in DOMAIN o.v THEN o.v[k] ELSE Undefined

\* { ...f, ...x }: nothing is spread from undefined
Spread(f, x) ==
  IF x.t = "object"
  THEN [k \in DOMAIN f \cup DOMAIN x.v |-> IF k \in DOMAIN x.v THEN x.v[k] ELSE f[k]]
  ELSE f

\* { ...f, k: v }
With(f, k, v) == [x \in DOMAIN f \cup {k} |-> IF x = k THEN v ELSE f[x]]

\* `delete` left out: the object keeps the key
Delete_Kept(f, k) == f

\* delete f[k]
Delete(f, k) == [x \in DOMAIN f \ {k} |-> f[x]]

\* x || []
OrEmpty(x) == IF x.t = "array" THEN x.v ELSE <<>>

RECURSIVE Stringify(_)
\* JSON.stringify followed by the reader's JSON.parse: a key whose value is
\* undefined is not written
Stringify(x) ==
  IF x.t = "object"
  THEN Object([k \in {j \in DOMAIN x.v : x.v[j].t # "undefined"} |-> Stringify(x.v[k])])
  ELSE x

GeneratedNote == Text("This file was generated using Vite")

\* BuildThemeJson with the generated entries spread before the base entries
BuildThemeJson_GeneratedFirst(config, baseThemeJson, colors, fontFamilies, fontSizes) ==
  LET settings == Prop(baseThemeJson, "settings")
      color == Prop(settings, "color")
      typography == Prop(settings, "typography")
      newColor ==
        IF config.disableTailwindColors THEN Undefined
        ELSE Object(With(Spread(NoKeys, color), "palette",
                         List(OrEmpty(colors) \o OrEmpty(Prop(color, "palette")))))
      newFontFamilies ==
        IF config.disableTailwindFonts THEN Undefined
        ELSE List(OrEmpty(fontFamilies) \o OrEmpty(Prop(typography, "fontFamilies")))
      newFontSizes ==
        IF config.disableTailwindFontSizes THEN Undefined
        ELSE List(OrEmpty(fontSizes) \o OrEmpty(Prop(typography, "fontSizes")))
      newTypography ==
        Object(With(With(With(With(Spread(NoKeys, typography),
                                   "defaultFontSizes", Bool(FALSE)),
                              "customFontSize", Bool(FALSE)),
                         "fontFamilies", newFontFamilies),
                    "fontSizes", newFontSizes))
      newSettings ==
        Object(With(With(Spread(NoKeys, settings), "color", newColor),
                    "typography", newTypography))
      themeJson ==
        With(Spread(With(NoKeys, "__processed__", GeneratedNote), baseThemeJson),
             "settings", newSettings)
  IN Object(Delete(themeJson, "__preprocessed__"))

\* BuildThemeJson with `[]` in place of `undefined` for a disabled category
BuildThemeJson_EmptyWhenDisabled(config, baseThemeJson, colors, fontFamilies, fontSizes) ==
  LET settings == Prop(baseThemeJson, "settings")
      color == Prop(settings, "color")
      typography == Prop(settings, "typography")
      newColor ==
        Object(With(Spread(NoKeys, color), "palette",
                    IF config.disableTailwindColors THEN List(<<>>)
                    ELSE List(OrEmpty(Prop(color, "palette")) \o OrEmpty(colors))))
      newFontFamilies ==
        IF config.disableTailwindFonts THEN List(<<>>)
        ELSE List(OrEmpty(Prop(typography, "fontFamilies")) \o OrEmpty(fontFamilies))
      newFontSizes ==
        IF config.disableTailwindFontSizes THEN List(<<>>)
        ELSE List(OrEmpty(Prop(typography, "fontSizes")) \o OrEmpty(fontSizes))
      newTypography ==
        Object(With(With(With(With(Spread(NoKeys, typography),
                                   "defaultFontSizes", Bool(FALSE)),
                              "customFontSize", Bool(FALSE)),
                         "fontFamilies", newFontFamilies),
                    "fontSizes", newFontSizes))
      newSettings ==
        Object(With(With(Spread(NoKeys, settings), "color", newColor),
                    "typography", newTypography))
      themeJson ==
        With(Spread(With(NoKeys, "__processed__", GeneratedNote), baseThemeJson),
             "settings", newSettings)
  IN Object(Delete(themeJson, "__preprocessed__"))

\* the themeJson object literal and `delete themeJson.__preprocessed__`
BuildThemeJson(config, baseThemeJson, colors, fontFamilies, fontSizes) ==
  LET settings == Prop(baseThemeJson, "settings")
      color == Prop(settings, "color")
      typography == Prop(settings, "typography")
      newColor ==
        IF config.disableTailwindColors THEN Undefined
        ELSE Object(With(Spread(NoKeys, color), "palette",
                         List(OrEmpty(Prop(color, "palette")) \o OrEmpty(colors))))
      newFontFamilies ==
        IF config.disableTailwindFonts THEN Undefined
        ELSE List(OrEmpty(Prop(typography, "fontFamilies")) \o OrEmpty(fontFamilies))
      newFontSizes ==
        IF config.disableTailwindFontSizes THEN Undefined
        ELSE List(OrEmpty(Prop(typography, "fontSizes")) \o OrEmpty(fontSizes))
      newTypography ==
        Object(With(With(With(With(Spread(NoKeys, typography),
                                   "defaultFontSizes", Bool(FALSE)),
                              "customFontSize", Bool(FALSE)),
                         "fontFamilies", newFontFamilies),
                    "fontSizes", newFontSizes))
      newSettings ==
        Object(With(With(Spread(NoKeys, settings), "color", newColor),
                    "typography", newTypography))
      themeJson ==
        With(Spread(With(NoKeys, "__processed__", GeneratedNote), baseThemeJson),
             "settings", newSettings)
  IN Object(Delete(themeJson, "__preprocessed__"))

\* What one call of a hook did: how it ended, the themeContent it worked on
\* (generateBundle) and the arguments of its emitFile calls, in order.
Outcome(hook, end, themeContent, emitted) ==
  [hook |-> hook, t |-> end.t, value |-> end.value, message |-> end.message,
   themeContent |-> themeContent, emitted |-> emitted]

\* JSON.parse(fs.readFileSync(path.resolve(baseThemeJsonPath), 'utf8'))
ReadBase(baseFile) ==
  IF baseFile.t = "missing" THEN Threw(<<"E", "N", "O", "E", "N", "T">>)
  ELSE IF baseFile.t = "malformed" THEN Threw(<<"S", "y", "n", "t", "a", "x", "E", "r", "r", "o", "r">>)
  ELSE Returned(baseFile)

\* the end of generateBundle: the document is built and emitted
Emit(config, themeContent, themeJson) ==
  Outcome("generateBundle", Returned(Undefined), themeContent,
          <<[type |-> "asset", fileName |-> config.outputPath,
             source |-> Stringify(themeJson)]>>)

\* AfterExtraction without the early return of line 788
AfterExtraction_NoEarlyReturn(config, resolvedTailwindConfig, baseThemeJson, extraction) ==
  IF extraction.t = "threw"
  THEN Outcome("generateBundle", Threw(extraction.message), Undefined, <<>>)
  ELSE Emit(config, extraction.value,
            BuildThemeJson(config, baseThemeJson,
              colorEntries(config, extraction.value, resolvedTailwindConfig),
              fontFamilyEntries(config, extraction.value, resolvedTailwindConfig),
              fontSizeEntries(config, extraction.value, resolvedTailwindConfig)))

\* generateBundle after the extraction: the early return, or the three
\* categories and the document
AfterExtraction(config, resolvedTailwindConfig, baseThemeJson, extraction) ==
  IF extraction.t = "threw"
  THEN Outcome("generateBundle", Threw(extraction.message), Undefined, <<>>)
  ELSE IF Falsy(extraction.value) /\ Falsy(resolvedTailwindConfig)
  THEN Outcome("generateBundle", Returned(Undefined), extraction.value, <<>>)
  ELSE Emit(config, extraction.value,
            BuildThemeJson(config, baseThemeJson,
              colorEntries(config, extraction.value, resolvedTailwindConfig),
              fontFamilyEntries(config, extraction.value, resolvedTailwindConfig),
              fontSizeEntries(config, extraction.value, resolvedTailwindConfig)))

\* AfterRead with a catch around the read that goes on with an empty document
AfterRead_EmptyBaseOnFailure(config, cssContent, resolvedTailwindConfig, read) ==
  AfterExtraction(config, resolvedTailwindConfig,
                  IF read.t = "threw" THEN Object(NoKeys) ELSE read.value,
                  IF ~Falsy(cssContent) THEN extractThemeContent(cssContent.v)
                  ELSE Returned(Null))

\* generateBundle after the base file was read: a failed read ends the hook
\* in its catch block, otherwise the stored CSS is searched for the block
AfterRead(config, cssContent, resolvedTailwindConfig, read) ==
  IF read.t = "threw"
  THEN Outcome("generateBundle", Threw(read.message), Undefined, <<>>)
  ELSE AfterExtraction(config, resolvedTailwindConfig, read.value,
         IF ~Falsy(cssContent) THEN extractThemeContent(cssContent.v)
         ELSE Returned(Null))

\* generateBundle of wordpressThemeJson
generateBundle(config, cssContent, resolvedTailwindConfig, baseFile) ==
  AfterRead(config, cssContent, resolvedTailwindConfig, ReadBase(baseFile))

(***************************************************************************)
(* wordpressPlugin                                                          *)
(***************************************************************************)
SUPPORTED_EXTENSIONS == <<<<".", "j", "s">>, <<".", "j", "s", "x">>, <<".", "t", "s">>, <<".", "t", "s", "x">>>>

\* defaultRequestToExternal of the dependency extraction package, for the
\* requests the plugin makes: `@wordpress/<pkg>` gives ['wp', <pkg in camel
\* case>], and null for the packages that have no script of their own
defaultRequestToExternal(request) ==
  IF HasAt(request, 1, <<"@", "w", "o", "r", "d", "p", "r", "e", "s", "s", "/">>)
     /\ request \notin {<<"@", "w", "o", "r", "d", "p", "r", "e", "s", "s", "/", "i", "c", "o", "n", "s">>, <<"@", "w", "o", "r", "d", "p", "r", "e", "s", "s", "/", "d", "a", "t", "a", "v", "i", "e", "w", "s">>}
  THEN List(<<<<"w", "p">>,
              Cat([k \in 1..(Len(request) - 11) |->
                     LET i == k + 11
                     IN IF request[i] = "-" /\ i < Len(request) /\ LowerChar(request[i + 1]) = request[i + 1]
                                            /\ UpperChar(request[i + 1]) # request[i + 1]
                        THEN <<>>
                        ELSE IF i > 12 /\ request[i - 1] = "-" THEN <<UpperChar(request[i])>>
                        ELSE <<request[i]>>])>>)
  ELSE Null

\* defaultRequestToHandle: `wp-<pkg>`, and null for the same packages
defaultRequestToHandle(request) ==
  IF HasAt(request, 1, <<"@", "w", "o", "r", "d", "p", "r", "e", "s", "s", "/">>)
     /\ request \notin {<<"@", "w", "o", "r", "d", "p", "r", "e", "s", "s", "/", "i", "c", "o", "n", "s">>, <<"@", "w", "o", "r", "d", "p", "r", "e", "s", "s", "/", "d", "a", "t", "a", "v", "i", "e", "w", "s">>}
  THEN JStr(<<"w", "p", "-">> \o SubSeq(request, 12, Len(request)))
  ELSE Null

\* One attempt of importRegex,
\*   /^[\s\n]*import[\s\n]+(?:([^;'"]+?)[\s\n]+from[\s\n]+)?['"]@wordpress\/([^'"]+)['"][\s\n]*;?/gm
\* at position p: the lazy group ends at the first place where the rest
\* matches, and without such a place the group is left out
ImportAt(code, p) ==
  LET ModuleAt(m) ==
        IF m > Len(code) \/ code[m] \notin {"'", "\""} \/ ~HasAt(code, m + 1, <<"@", "w", "o", "r", "d", "p", "r", "e", "s", "s", "/">>)
        THEN [t |-> "null"]
        ELSE LET e == CHOOSE e \in (m + 11)..Len(code) :
                        /\ \A i \in (m + 12)..e : code[i] \notin {"'", "\""}
                        /\ e = Len(code) \/ code[e + 1] \in {"'", "\""}
             IN IF e < m + 12 \/ e = Len(code) THEN [t |-> "null"]
                ELSE [t |-> "match", pkg |-> SubSeq(code, m + 12, e),
                      end |-> IF SkipSpaces(code, e + 2) <= Len(code)
                                 /\ code[SkipSpaces(code, e + 2)] = ";"
                              THEN SkipSpaces(code, e + 2)
                              ELSE SkipSpaces(code, e + 2) - 1]
      FromAt(f) ==
        IF \/ f > Len(code)
           \/ SkipSpaces(code, f) = f
           \/ ~HasAt(code, SkipSpaces(code, f), <<"f", "r", "o", "m">>)
           \/ SkipSpaces(code, SkipSpaces(code, f) + 4) = SkipSpaces(code, f) + 4
        THEN [t |-> "null"]
        ELSE ModuleAt(SkipSpaces(code, SkipSpaces(code, f) + 4))
      q == SkipSpaces(code, SkipSpaces(code, p) + 6)
      ends == {e \in q..Len(code) :
                 /\ FromAt(e + 1).t = "match"
                 /\ \A i \in q..e : code[i] \notin {";", "'", "\""}}
      first == CHOOSE e \in ends : \A other \in ends : e <= other
  IN IF \/ ~(p = 1 \/ code[p - 1] \in {"\n", "\r"})
        \/ ~HasAt(code, SkipSpaces(code, p), <<"i", "m", "p", "o", "r", "t">>)
        \/ q = SkipSpaces(code, p) + 6
     THEN [t |-> "null"]
     ELSE IF ends # {}
     THEN [t |-> "match", index |-> p, end |-> FromAt(first + 1).end,
           imports |-> JStr(SubSeq(code, q, first)), pkg |-> FromAt(first + 1).pkg]
     ELSE IF ModuleAt(q).t = "match"
     THEN [t |-> "match", index |-> p, end |-> ModuleAt(q).end,
           imports |-> Undefined, pkg |-> ModuleAt(q).pkg]
     ELSE [t |-> "null"]

\* importRegex.exec(code) with the given lastIndex (counted from 1)
ExecImport(code, lastIndex) ==
  LET matches == {ImportAt(code, p) : p \in lastIndex..Len(code)} \ {[t |-> "null"]}
  IN IF matches = {} THEN [t |-> "null"]
     ELSE CHOOSE match \in matches : \A other \in matches : match.index <= other.index

RECURSIVE Split(_, _)
\* s.split(separator)
Split(s, separator) ==
  IF ~Includes(s, separator) THEN <<s>>
  ELSE LET found == {p \in 1..Len(s) : HasAt(s, p, separator)}
           p == CHOOSE p \in found : \A other \in found : p <= other
       IN <<SubSeq(s, 1, p - 1)>> \o Split(SubSeq(s, p + Len(separator), Len(s)), separator)

\* extractNamedImports(imports): the text of the first {...} that is not
\* empty, split at the commas, trimmed, without the empty parts
extractNamedImports(imports) ==
  LET opens == {b \in 1..(Len(imports) - 2) :
                  /\ imports[b] = "{" /\ imports[b + 1] # "}"
                  /\ \E c \in (b + 2)..Len(imports) : imports[c] = "}"}
      open == CHOOSE b \in opens : \A other \in opens : b <= other
      close == CHOOSE c \in (open + 2)..Len(imports) :
                 imports[c] = "}" /\ \A i \in (open + 1)..(c - 1) : imports[i] # "}"
      parts == Split(SubSeq(imports, open + 1, close - 1), <<",">>)
  IN IF opens = {} THEN <<>>
     ELSE SelectSeq([i \in DOMAIN parts |-> Trim(parts[i])], LAMBDA part : part # <<>>)

\* handleNamedReplacement(namedImports, external)
handleNamedReplacement(namedImports, external) ==
  Join([i \in DOMAIN namedImports |->
          LET parts == Split(namedImports[i], <<" ", "a", "s", " ">>)
              name == Trim(parts[1])
              alias == IF Len(parts) >= 2 THEN Trim(parts[2]) ELSE name
          IN <<"c", "o", "n", "s", "t", " ">> \o alias \o <<" ", "=", " ">> \o Join(external, <<".">>) \o <<".">> \o name \o <<";">>],
       <<"\n">>)

\* hmrCode with the default hmrConfig; of the handler only the registration
\* is kept, which is the part transform looks for
hmrCode ==
  <<"\n", "i", "f", " ", "(", "i", "m", "p", "o", "r", "t", ".", "m", "e", "t", "a", ".", "h", "o", "t", ")", " ", "{", "\n", " ", " ", " ", " ", "i", "m", "p", "o", "r", "t", ".", "m", "e", "t", "a", ".", "h", "o", "t", ".", "o", "n", "(", "'", "v", "i", "t", "e", ":", "b", "e", "f", "o", "r", "e", "U", "p", "d", "a", "t", "e", "'", ",", " ", "(", "p", "a", "y", "l", "o", "a", "d", ")", " ", "=", ">", " ", "{", "\n", " ", " ", " ", " ", "}", ")", ";", "\n", "}">>

RECURSIVE ImportLoop(_, _, _, _)
\* The while loop of transform: match is the result of the last exec on
\* code; the outcome is the transformed code and the Set of handles.  A
\* replacement built from names without `$` is inserted as it is written
ImportLoop(code, match, transformedCode, handles) ==
  LET IsWord(c) == LowerChar(c) # c \/ UpperChar(c) # c
                     \/ c \in {"0", "1", "2", "3", "4", "5", "6", "7", "8", "9", "_"}
      Word(s, p) == SubSeq(s, p, (CHOOSE q \in p..(Len(s) + 1) :
                                    /\ \A r \in p..(q - 1) : IsWord(s[r])
                                    /\ q = Len(s) + 1 \/ ~IsWord(s[q])) - 1)
      AliasAt(s, p) ==       \* /\*\s+as\s+(\w+)/ tried at p
        IF /\ s[p] = "*"
           /\ SkipSpaces(s, p + 1) > p + 1
           /\ HasAt(s, SkipSpaces(s, p + 1), <<"a", "s">>)
           /\ SkipSpaces(s, SkipSpaces(s, p + 1) + 2) > SkipSpaces(s, p + 1) + 2
        THEN Word(s, SkipSpaces(s, SkipSpaces(s, p + 1) + 2))
        ELSE <<>>
      Alias(s) ==
        IF \E p \in 1..Len(s) : AliasAt(s, p) # <<>>
        THEN AliasAt(s, CHOOSE p \in 1..Len(s) :
                          AliasAt(s, p) # <<>> /\ \A other \in 1..(p - 1) : AliasAt(s, other) = <<>>)
        ELSE <<>>
      Assigned(name, external) ==
        IF name = <<>> THEN <<>>
        ELSE <<"c", "o", "n", "s", "t", " ">> \o name \o <<" ", "=", " ">> \o Join(external, <<".">>) \o <<";">>
      Replacement(imports, external) ==
        IF Includes(imports, <<"{">>)
        THEN handleNamedReplacement(extractNamedImports(imports), external)
        ELSE IF Includes(imports, <<"*">>) THEN Assigned(Alias(imports), external)
        ELSE Assigned(Word(imports, 1), external)
      Replace(s, pattern, replacement) ==      \* s.replace(pattern, replacement)
        IF ~Includes(s, pattern) THEN s
        ELSE LET found == {p \in 1..(Len(s) + 1) : HasAt(s, p, pattern)}
                 p == CHOOSE p \in found : \A other \in found : p <= other
             IN SubSeq(s, 1, p - 1) \o replacement \o SubSeq(s, p + Len(pattern), Len(s))
      Added(handle) ==
        IF \E i \in DOMAIN handles : handles[i] = handle THEN handles
        ELSE Append(handles, handle)
      request == <<"@", "w", "o", "r", "d", "p", "r", "e", "s", "s", "/">> \o match.pkg
  IN IF match.t = "null" THEN [code |-> transformedCode, dependencies |-> handles]
     ELSE IF Falsy(defaultRequestToExternal(request)) \/ Falsy(defaultRequestToHandle(request))
     THEN ImportLoop(code, ExecImport(code, match.end + 1), transformedCode, handles)
     ELSE IF Falsy(match.imports)
     THEN ImportLoop(code, ExecImport(code, match.end + 1),
                     Replace(transformedCode, SubSeq(code, match.index, match.end), <<>>),
                     Added(defaultRequestToHandle(request).v))
     ELSE IF Replacement(match.imports.v, defaultRequestToExternal(request).v) # <<>>
     THEN ImportLoop(code, ExecImport(code, match.end + 1),
                     Replace(transformedCode, SubSeq(code, match.index, match.end),
                             Replacement(match.imports.v, defaultRequestToExternal(request).v)),
                     Added(defaultRequestToHandle(request).v))
     ELSE ImportLoop(code, ExecImport(code, match.end + 1), transformedCode,
                     Added(defaultRequestToHandle(request).v))

\* What transform(code, id) returns and leaves in the Set, with the default
\* extensions and the default hmrConfig
transform(code, id, handles) ==
  LET Result(loop) ==
        [value |-> Object(("map" :> Null) @@ "code" :> Text(
                     IF ~Includes(loop.code, <<"v", "i", "t", "e", ":", "b", "e", "f", "o", "r", "e", "U", "p", "d", "a", "t", "e">>) /\ Includes(id, <<"e", "d", "i", "t", "o", "r">>)
                     THEN loop.code \o <<"\n">> \o hmrCode
                     ELSE loop.code)),
         dependencies |-> loop.dependencies]
  IN IF ~\E i \in DOMAIN SUPPORTED_EXTENSIONS : EndsWith(id, SUPPORTED_EXTENSIONS[i])
     THEN [value |-> Null, dependencies |-> handles]
     ELSE Result(ImportLoop(code, ExecImport(code, 1), code, handles))

\* The listener hmrCode registers for `vite:beforeUpdate`, with the default
\* iframeName and cssPattern: the page after the event.  A page has the
\* iframe named editor-canvas or not, with or without a contentDocument,
\* and the textContent of the style tags in it; reloaded tells whether the
\* listener called window.location.reload()
beforeUpdate(payload, page, timestamp) ==
  LET cssUpdates == SelectSeq(payload, LAMBDA update : update.type = "css-update")
      found == {i \in DOMAIN page.styles : Includes(page.styles[i], <<"e", "d", "i", "t", "o", "r", ".", "c", "s", "s">>)}
      editorStyle == CHOOSE i \in found : \A other \in found : i <= other
  IN IF Len(cssUpdates) > 0 /\ page.iframe = "loaded" /\ found # {}
     THEN [iframe |-> page.iframe,
           styles |-> [page.styles EXCEPT ![editorStyle] =
                         <<"@", "i", "m", "p", "o", "r", "t", " ", "u", "r", "l", "(", "'">> \o <<"h", "t", "t", "p", ":", "/", "/", "v", "i", "t", "e">> \o cssUpdates[1].path
                           \o <<"?", "t", "=">> \o timestamp \o <<"'", ")">>],
           payload |-> payload, reloaded |-> FALSE]
     ELSE [iframe |-> page.iframe, styles |-> page.styles,
           payload |-> payload, reloaded |-> TRUE]

(***************************************************************************)
(* The plugin instance and its surroundings                                 *)
(***************************************************************************)
VARIABLES
  config,                  \* the options wordpressThemeJson was created with
  baseFile,                \* the file at baseThemeJsonPath
  imported,                \* what import() of the tailwindConfig path does
  cssSource,               \* the stylesheet of the build; the stored CSS is its text
  cssContent,              \* let cssContent
  resolvedTailwindConfig,  \* let resolvedTailwindConfig
  call,                    \* the latest hook call and what it did
  dependencies,            \* const dependencies of wordpressPlugin, in insertion order
  wpCall,                  \* the latest call of a wordpressPlugin hook and what it did
  page                     \* the editor page in which the injected hmrCode runs

vars == <<config, baseFile, imported, cssSource, cssContent, resolvedTailwindConfig, call,
          dependencies, wpCall, page>>

\* the closure of wordpressThemeJson and the closure of wordpressPlugin
themeVars == <<config, baseFile, imported, cssSource, cssContent, resolvedTailwindConfig, call>>

\* A stylesheet: the text before the block, the block's opening text, the
\* declarations written in the block and the text after them.
Sheet(before, opener, decls, after) ==
  [before |-> before, opener |-> opener, decls |-> decls, after |-> after]

Decl(prefix, suffix, value) == [prefix |-> prefix, suffix |-> suffix, value |-> value]

\* any other text written in the block
Piece(text) == [text |-> text]

RenderDecl(d) ==
  IF "text" \in DOMAIN d THEN d.text
  ELSE d.prefix \o d.suffix \o <<":", " ">> \o d.value \o <<";">>

\* the text of a stylesheet
Render(sheet) ==
  sheet.before \o sheet.opener
    \o Cat([i \in 1..Len(sheet.decls) |-> RenderDecl(sheet.decls[i])])
    \o sheet.after

NoSheet == Sheet(<<>>, <<>>, <<>>, <<>>)

NoCall == Outcome("none", Returned(Undefined), Undefined, <<>>)

\* no editor page is open
NoPage == [iframe |-> "none", styles |-> <<>>, payload |-> <<>>, reloaded |-> FALSE]

\* a call of a wordpressPlugin hook: the hook, its arguments, what it returned
\* and what it handed to emitFile
WpOutcome(hook, source, id, value, emitted) ==
  [hook |-> hook, source |-> source, id |-> id, value |-> value, emitted |-> emitted]

\* wordpressThemeJson(options): the defaults of the destructuring
Options(tailwindConfig, colorsOff, fontsOff, sizesOff, shadeLabels) ==
  [tailwindConfig |-> tailwindConfig,
   disableTailwindColors |-> colorsOff,
   disableTailwindFonts |-> fontsOff,
   disableTailwindFontSizes |-> sizesOff,
   shadeLabels |-> shadeLabels,
   fontLabels |-> Undefined,
   fontSizeLabels |-> Undefined,
   baseThemeJsonPath |-> <<".", "/", "t", "h", "e", "m", "e", ".", "j", "s", "o", "n">>,
   outputPath |-> <<"a", "s", "s", "e", "t", "s", "/", "t", "h", "e", "m", "e", ".", "j", "s", "o", "n">>,
   cssFile |-> <<"a", "p", "p", ".", "c", "s", "s">>]

\* transform(code, id) when the code is stored only for the id that is cssFile
Transform_WhenIdIsCssFile(sheet, id) ==
  /\ IF id = config.cssFile
     THEN cssContent' = JStr(Render(sheet)) /\ cssSource' = sheet
     ELSE UNCHANGED <<cssContent, cssSource>>
  /\ call' = Outcome("transform", Returned(Null), Undefined, <<>>)
  /\ UNCHANGED <<config, baseFile, imported, resolvedTailwindConfig, dependencies, wpCall, page>>

\* transform(code, id) of wordpressThemeJson, code being the text of `sheet`
Transform(sheet, id) ==
  /\ IF Includes(id, config.cssFile)
     THEN cssContent' = JStr(Render(sheet)) /\ cssSource' = sheet
     ELSE UNCHANGED <<cssContent, cssSource>>
  /\ call' = Outcome("transform", Returned(Null), Undefined, <<>>)
  /\ UNCHANGED <<config, baseFile, imported, resolvedTailwindConfig, dependencies, wpCall, page>>

\* configResolved()
ConfigResolved ==
  LET load == IF Falsy(config.tailwindConfig) THEN Returned(Undefined)
              ELSE loadTailwindConfig(config.tailwindConfig.v, imported)
  IN /\ resolvedTailwindConfig' =
          IF ~Falsy(config.tailwindConfig) /\ load.t = "returned" THEN load.value
          ELSE resolvedTailwindConfig
     /\ call' = Outcome("configResolved",
                        IF load.t = "threw" THEN load ELSE Returned(Undefined),
                        Undefined, <<>>)
     /\ UNCHANGED <<config, baseFile, imported, cssSource, cssContent, dependencies, wpCall, page>>

\* generateBundle() when the document of the last build pass is taken as the
\* base document of the next
GenerateBundle_OnLastDocument ==
  /\ call' = generateBundle(config, cssContent, resolvedTailwindConfig,
                            IF call.hook = "generateBundle" /\ call.emitted # <<>>
                            THEN call.emitted[1].source ELSE baseFile)
  /\ UNCHANGED <<config, baseFile, imported, cssSource, cssContent, resolvedTailwindConfig, dependencies, wpCall, page>>

\* generateBundle()
GenerateBundle ==
  /\ call' = generateBundle(config, cssContent, resolvedTailwindConfig, baseFile)
  /\ UNCHANGED <<config, baseFile, imported, cssSource, cssContent, resolvedTailwindConfig, dependencies, wpCall, page>>

\* the option check of the earlier revision: an object or undefined
wordpressThemeJson_ObjectOrUndefined(options) ==
  IF options.tailwindConfig.t \notin {"undefined", "object", "null"}
  THEN Threw(<<"t", "a", "i", "l", "w", "i", "n", "d", "C", "o", "n", "f", "i", "g", " ", "m", "u", "s", "t", " ", "b", "e", " ", "a", "n", " ", "o", "b", "j", "e", "c", "t", " ", "o", "r", " ", "u", "n", "d", "e", "f", "i", "n", "e", "d">>)
  ELSE Returned(Object(("name" :> Text("wordpress-theme-json")) @@ ("enforce" :> Text("post"))))

\* wordpressThemeJson(options): it throws on a tailwindConfig that is neither
\* undefined nor of type string, and returns the plugin object otherwise
wordpressThemeJson(options) ==
  IF options.tailwindConfig.t # "undefined" /\ options.tailwindConfig.t # "string"
  THEN Threw(<<"t", "a", "i", "l", "w", "i", "n", "d", "C", "o", "n", "f", "i", "g", " ", "m", "u", "s", "t", " ", "b", "e", " ", "a", " ", "s", "t", "r", "i", "n", "g", " ", "p", "a", "t", "h", " ", "o", "r", " ", "u", "n", "d", "e", "f", "i", "n", "e", "d">>)
  ELSE Returned(Object(("name" :> Text("wordpress-theme-json")) @@ ("enforce" :> Text("post"))))

\* a call of wordpressThemeJson(options); the state is that of the plugin
\* created last, which a call that throws leaves as it is
WordpressThemeJson(options) ==
  /\ call' = Outcome("wordpressThemeJson", wordpressThemeJson(options), Undefined, <<>>)
  /\ IF wordpressThemeJson(options).t = "returned"
     THEN /\ config' = options
          /\ cssContent' = Null
          /\ resolvedTailwindConfig' = Undefined
          /\ cssSource' = NoSheet
     ELSE UNCHANGED <<config, cssContent, resolvedTailwindConfig, cssSource>>
  /\ UNCHANGED <<baseFile, imported, dependencies, wpCall, page>>

\* external(id), the function the options hook of wordpressPlugin installs
External(id) ==
  /\ wpCall' = WpOutcome("external", <<>>, id,
                         Bool(id.t = "string" /\ HasAt(id.v, 1, <<"@", "w", "o", "r", "d", "p", "r", "e", "s", "s", "/">>)), <<>>)
  /\ UNCHANGED <<themeVars, dependencies, page>>

\* resolveId(id) of wordpressPlugin; dependencies is a Set, which keeps the
\* order of insertion
ResolveId(id) ==
  IF \/ id.t # "string"
     \/ ~HasAt(id.v, 1, <<"@", "w", "o", "r", "d", "p", "r", "e", "s", "s", "/">>)
     \/ Falsy(defaultRequestToExternal(id.v))
     \/ Falsy(defaultRequestToHandle(id.v))
  THEN /\ wpCall' = WpOutcome("resolveId", <<>>, id, Null, <<>>)
       /\ UNCHANGED <<themeVars, dependencies, page>>
  ELSE /\ wpCall' = WpOutcome("resolveId", <<>>, id,
                              Object(("id" :> Text(id.v)) @@ ("external" :> Bool(TRUE))), <<>>)
       /\ dependencies' =
            IF \E i \in DOMAIN dependencies : dependencies[i] = defaultRequestToHandle(id.v).v
            THEN dependencies
            ELSE Append(dependencies, defaultRequestToHandle(id.v).v)
       /\ UNCHANGED <<themeVars, page>>

\* generateBundle() of wordpressPlugin: the source is
\* JSON.stringify([...dependencies], null, 2)
WpGenerateBundle ==
  /\ wpCall' = WpOutcome("generateBundle", <<>>, Undefined, Undefined,
                         <<[type |-> "asset",
                            name |-> <<"e", "d", "i", "t", "o", "r", ".", "d", "e", "p", "s", ".", "j", "s", "o", "n">>,
                            originalFileName |-> <<"e", "d", "i", "t", "o", "r", ".", "d", "e", "p", "s", ".", "j", "s", "o", "n">>,
                            source |->
                              IF dependencies = <<>> THEN <<"[", "]">>
                              ELSE <<"[", "\n", " ", " ">>
                                     \o Join([i \in DOMAIN dependencies |->
                                                <<"\"">> \o dependencies[i] \o <<"\"">>],
                                             <<",", "\n", " ", " ">>)
                                     \o <<"\n", "]">>]>>)
  /\ UNCHANGED <<themeVars, dependencies, page>>

\* transform(code, id) of wordpressPlugin, called with the text of source
WpTransform(source, id, result) ==
  /\ wpCall' = WpOutcome("transform", source, id, result.value, <<>>)
  /\ dependencies' = result.dependencies
  /\ UNCHANGED <<themeVars, page>>

\* Vite sends `vite:beforeUpdate` to the editor page at the time timestamp
BeforeUpdate(payload, timestamp) ==
  /\ page' = beforeUpdate(payload, page, timestamp)
  /\ UNCHANGED <<themeVars, dependencies, wpCall>>

\* the closure of wordpressThemeJson(options) when it returns
Created(options) ==
  /\ config = options
  /\ cssContent = Null
  /\ resolvedTailwindConfig = Undefined
  /\ call = NoCall

(***************************************************************************)
(* The inputs: stylesheets, options, base documents, legacy configs         *)
(***************************************************************************)
MaxBody == 2
MaxSegments == 3

RECURSIVE Hyphenated(_, _)
\* the words joined by hyphens, at most n of them
Hyphenated(words, n) ==
  IF n <= 1 THEN words
  ELSE Hyphenated(words, n - 1)
       \cup {s \o <<"-">> \o w : s \in Hyphenated(words, n - 1), w \in words}

ThemeOpener == <<"@", "t", "h", "e", "m", "e", " ", "{">>
LayerOpener == <<"@", "l", "a", "y", "e", "r", "\n", "t", "h", "e", "m", "e", "{">>

ShadeLabels == Object((<<"5", "0", "0">> :> <<"D", "e", "f", "a", "u", "l", "t">>) @@ (<<"5", "0">> :> <<"L", "i", "g", "h", "t", "e", "s", "t">>))

TailwindPath == JStr(<<".", "/", "t", "a", "i", "l", "w", "i", "n", "d", ".", "c", "o", "n", "f", "i", "g", ".", "j", "s">>)

Entry3(field, name, slug, value) ==
  IF field = "color" THEN [name |-> name, slug |-> slug, color |-> value]
  ELSE IF field = "fontFamily" THEN [name |-> name, slug |-> slug, fontFamily |-> value]
  ELSE [name |-> name, slug |-> slug, size |-> value]

\* a base theme.json with an entry in each array, sibling fields at every level
\* and the marker of the older pipeline
FullBase ==
  Object(
    ("version" :> Text("3")) @@
    ("__preprocessed__" :> Text("old")) @@
    ("__processed__" :> Text("by hand")) @@
    ("settings" :> Object(
       ("spacing" :> Text("units")) @@
       ("color" :> Object(
          ("custom" :> Bool(TRUE)) @@
          ("palette" :> List(<<Entry3("color", <<"E", "x", "i", "s", "t", "i", "n", "g">>, <<"r", "e", "d", "-", "5", "0", "0">>, <<"#", "f", "f", "f">>)>>)))) @@
       ("typography" :> Object(
          ("fluid" :> Bool(TRUE)) @@
          ("customFontSize" :> Bool(TRUE)) @@
          ("fontFamilies" :> List(<<Entry3("fontFamily", <<"E", "x", "i", "s", "t", "i", "n", "g">>, <<"i", "n", "t", "e", "r">>, <<"s", "e", "r", "i", "f">>)>>)) @@
          ("fontSizes" :> List(<<Entry3("size", <<"E", "x", "i", "s", "t", "i", "n", "g">>, <<"l", "g">>, <<"2", "p", "x">>)>>)))))))

\* a base theme.json without settings
BareBase == Object("version" :> Text("3"))

MissingBase == [t |-> "missing"]

\* a theme.json that JSON.parse rejects
MalformedBase == [t |-> "malformed"]

\* the default export of a tailwind.config.js
LegacyConfig ==
  [t |-> "object",
   theme |->
     [t |-> "object",
      colors |-> Dict(<<[key |-> <<"p", "r", "i", "m", "a", "r", "y">>, value |-> JStr(<<"#", "0", "0", "0">>)],
                        [key |-> <<"r", "e", "d">>,
                         value |-> Dict(<<[key |-> <<"5", "0", "0">>, value |-> JStr(<<"#", "f", "0", "0">>)]>>)]>>),
      fontFamily |-> Dict(<<[key |-> <<"s", "a", "n", "s">>,
                             value |-> List(<<<<"s", "y", "s", "t", "e", "m", "-", "u", "i">>, <<"s", "e", "r", "i", "f">>>>)]>>),
      fontSize |-> Dict(<<[key |-> <<"l", "g">>, value |-> List(<<<<"1", "r", "e", "m">>>>)]>>),
      extend |->
        [t |-> "object",
         colors |-> Dict(<<[key |-> <<"b", "r", "a", "n", "d">>, value |-> JStr(<<"#", "f", "f", "f">>)],
                           [key |-> <<"p", "r", "i", "m", "a", "r", "y">>, value |-> JStr(<<"#", "f", "0", "0">>)]>>),
         fontFamily |-> Undefined,
         fontSize |-> Dict(<<[key |-> <<"x", "s">>, value |-> JStr(<<"2", "p", "x">>)]>>)]]]

Imports == {Returned(LegacyConfig), Threw(<<"C", "a", "n", "n", "o", "t", " ", "f", "i", "n", "d", " ", "m", "o", "d", "u", "l", "e">>)}

ColorDecl(suffix) == Decl(COLOR, suffix, <<"#", "f", "0", "0">>)

\* the stylesheets of the plugin's life cycle
LifeSheets ==
  { Sheet(<<".", "a", "{", "}">>, <<>>, <<>>, <<>>),
    Sheet(<<"\n">>, ThemeOpener,
          << ColorDecl(<<"r", "e", "d", "-", "5", "0", "0">>),
             Decl(FONT_FAMILY, <<"i", "n", "t", "e", "r">>, <<"\"", "I", "n", "t", "e", "r", "\"">>),
             Decl(FONT_FAMILY, <<"w", "e", "i", "g", "h", "t">>, <<"5", "0", "0">>),
             Decl(FONT_SIZE, <<"l", "g">>, <<"1", "r", "e", "m">>) >>,
          <<"}">>),
    Sheet(<<"\n">>, LayerOpener, <<ColorDecl(<<"p", "r", "i", "m", "a", "r", "y">>)>>, <<"}">>),
    Sheet(<<"\n">>, ThemeOpener, <<>>, <<"}">>),
    Sheet(<<"\n">>, ThemeOpener, <<Piece(<<"-", "-", "s", "p", "a", "c", "i", "n", "g", ":", " ", "4", "p", "x", ";">>)>>, <<"}">>),
    Sheet(<<"\n">>, ThemeOpener,
          <<Piece(<<"/", "*", " ", "-", "-", "c", "o", "l", "o", "r", "-", "o", "l", "d", ":", " ", "#", "f", "f", "f", ";", " ", "*", "/">>),
            ColorDecl(<<"p", "r", "i", "m", "a", "r", "y">>)>>,
          <<"}">>),
    Sheet(<<"\n">>, ThemeOpener, <<ColorDecl(<<"p", "r", "i", "m", "a", "r", "y">>)>>, <<"/", "*", "}">>),
    Sheet(<<>>, ThemeOpener, <<ColorDecl(<<"p", "r", "i", "m", "a", "r", "y">>)>>, <<"}">>) }

Ids ==
  { <<"a", "p", "p", ".", "c", "s", "s">>,
    <<"/", "s", "r", "c", "/", "a", "p", "p", ".", "c", "s", "s", "?", "v", "=", "1">>,
    <<"m", "a", "i", "n", ".", "j", "s">> }

DefaultOptions == Options(Undefined, FALSE, FALSE, FALSE, Undefined)

\* the options of a later call of wordpressThemeJson: a tailwindConfig that
\* is undefined, a path, the empty string, an object, null, a number or a flag
CreateOptions ==
  {[DefaultOptions EXCEPT !.tailwindConfig = value] :
     value \in {Undefined, TailwindPath, JStr(<<>>), LegacyConfig, Null,
                [t |-> "number", v |-> 1], Bool(TRUE)}}

Init ==
  /\ \E tailwindConfig \in {Undefined, TailwindPath},
        colorsOff \in BOOLEAN, fontsOff \in BOOLEAN, sizesOff \in BOOLEAN,
        shadeLabels \in {Undefined, ShadeLabels} :
       Created(Options(tailwindConfig, colorsOff, fontsOff, sizesOff, shadeLabels))
  /\ cssSource = NoSheet
  /\ baseFile \in {FullBase, BareBase, MissingBase, MalformedBase}
  /\ imported \in Imports
  /\ dependencies = <<>> /\ wpCall = WpOutcome("none", <<>>, Undefined, Undefined, <<>>)
  /\ page = NoPage

Next ==
  \/ \E options \in CreateOptions : WordpressThemeJson(options)
  \/ ConfigResolved
  \/ \E sheet \in LifeSheets, id \in Ids : Transform(sheet, id)
  \/ GenerateBundle

Spec == Init /\ [][Next]_vars

(***************************************************************************)
(* Stylesheets for the scanner of extractThemeContent.  Every piece of a    *)
(* body is closed in itself: its strings and comments end and its braces    *)
(* pair up, so the block's closing brace is the first character after the   *)
(* body.                                                                    *)
(***************************************************************************)
BodyPieces ==
  { Piece(<<"a">>),
    Piece(<<"'", "}", "'">>),
    Piece(<<"\"", "{", "\"">>),
    Piece(<<"/", "*", "}", "*", "/">>),
    Piece(<<"{", "b", "}">>),
    Piece(<<"\\", "}">>),
    Piece(<<"\\", "{">>),
    Piece(<<"\\", "'">>),
    Piece(<<"'", "\\", "'", "}", "'">>) }

Bodies == UNION {[1..k -> BodyPieces] : k \in 0..MaxBody}

\* the texts before an opener: none (the block starts the file), a line
\* break, a rule of its own
Befores == {<<>>, <<"\n">>, <<".", "a", "{", "}", "\n">>}

Openers == {ThemeOpener, LayerOpener}

\* the texts after a body that close the block
ClosingAfters == {<<"}">>, <<"}", "}">>, <<"}", "@", "t", "h", "e", "m", "e", " ", "{", "c", "}">>}

\* the texts after a body that leave the block open: the end of the input, an
\* unterminated string, an unterminated comment
OpenAfters == {<<>>, <<"'", "}">>, <<"/", "*", "}">>, <<"\\", "}">>}

ExtractSheets ==
  { Sheet(before, opener, body, after) :
      before \in Befores, opener \in Openers, body \in Bodies,
      after \in ClosingAfters \cup OpenAfters }

InitExtract ==
  /\ Created(DefaultOptions)
  /\ cssSource \in ExtractSheets
  /\ baseFile = BareBase
  /\ imported = Returned(LegacyConfig)
  /\ dependencies = <<>> /\ wpCall = WpOutcome("none", <<>>, Undefined, Undefined, <<>>)
  /\ page = NoPage

NextExtract ==
  \/ ConfigResolved
  \/ \E id \in Ids : Transform(cssSource, id)
  \/ GenerateBundle

SpecExtract == InitExtract /\ [][NextExtract]_vars

(***************************************************************************)
(* Stylesheets for the three categories: a block of one declaration, or of  *)
(* one declaration followed by a second one.                                *)
(***************************************************************************)
ColorWords == {<<"r", "e", "d">>, <<"D", "a", "r", "k">>, <<"5", "0", "0">>, <<"9", "0", "0">>}

ColorSuffixes ==
  Hyphenated(ColorWords, MaxSegments)
    \cup {<<"f", "a", "n", "c", "y", "-", "t", "e", "s", "t", "-", "e", "x", "a", "m", "p", "l", "e">>, <<"p", "r", "i", "m", "a", "r", "y">>, <<"r", "e", "d", "-", "*">>}

FontWords == {<<"i", "n", "t", "e", "r">>, <<"S", "a", "n", "s">>, <<"w", "e", "i", "g", "h", "t">>, <<"f", "e", "a", "t", "u", "r", "e">>, <<"s", "e", "t", "t", "i", "n", "g", "s">>}

FontSuffixes ==
  Hyphenated(FontWords, MaxSegments - 1)
    \cup {<<"v", "a", "r", "i", "a", "t", "i", "o", "n", "-", "s", "e", "t", "t", "i", "n", "g", "s">>, <<"f", "a", "m", "i", "l", "y">>, <<"s", "i", "z", "e">>, <<"s", "m", "o", "o", "t", "h", "i", "n", "g">>,
          <<"s", "t", "y", "l", "e">>, <<"s", "t", "r", "e", "t", "c", "h">>, <<"r", "e", "s", "i", "z", "e">>}

TextSuffixes ==
  {<<"l", "g">>, <<"X", "L">>, <<"l", "i", "n", "e", "-", "h", "e", "i", "g", "h", "t">>, <<"l", "g", "-", "-", "l", "i", "n", "e", "-", "h", "e", "i", "g", "h", "t">>}

ColorValues == {<<"#", "f", "0", "0">>, <<"#", "f", "f", "f", " ">>}
FontValues == {<<"\"", "I", "n", "t", "e", "r", "\"">>, <<"'", "A", "'", ",", " ", "s", "e", "r", "i", "f">>}
TextValues == {<<"1", "r", "e", "m">>}

ClassifyDecls ==
  {Decl(COLOR, suffix, value) : suffix \in ColorSuffixes, value \in ColorValues}
    \cup {Decl(FONT_FAMILY, suffix, value) : suffix \in FontSuffixes, value \in FontValues}
    \cup {Decl(FONT_SIZE, suffix, value) : suffix \in TextSuffixes, value \in TextValues}
    \cup {Decl(COLOR, suffix, <<"i", "n", "i", "t", "i", "a", "l">>) : suffix \in {<<"*">>, <<"r", "e", "d", "-", "*">>}}

SecondDecls ==
  {ColorDecl(<<"p", "r", "i", "m", "a", "r", "y">>), Decl(FONT_FAMILY, <<"i", "n", "t", "e", "r">>, <<"\"", "I", "n", "t", "e", "r", "\"">>),
   Decl(FONT_SIZE, <<"l", "g">>, <<"2", "p", "x">>)}

ClassifySheets ==
  {Sheet(<<"\n">>, ThemeOpener, <<d>>, <<"}">>) : d \in ClassifyDecls}
    \cup {Sheet(<<"\n">>, ThemeOpener, <<d, e>>, <<"}">>) : d \in ClassifyDecls, e \in SecondDecls}

InitClassify ==
  /\ \E shadeLabels \in {Undefined, ShadeLabels} :
       Created(Options(Undefined, FALSE, FALSE, FALSE, shadeLabels))
  /\ cssSource \in ClassifySheets
  /\ baseFile = BareBase
  /\ imported = Returned(LegacyConfig)
  /\ dependencies = <<>> /\ wpCall = WpOutcome("none", <<>>, Undefined, Undefined, <<>>)
  /\ page = NoPage

SpecClassify == InitClassify /\ [][NextExtract]_vars

(***************************************************************************)
(* Stylesheets for fonts and font sizes: blocks of up to MaxDecls distinct  *)
(* declarations in any order, created with and without the label options    *)
(* of the README.                                                           *)
(***************************************************************************)
MaxDecls == 3

FontLabels == Object((<<"i", "n", "t", "e", "r">> :> <<"I", "n", "t", "e", "r", " ", "F", "o", "n", "t">>) @@ (<<"s", "a", "n", "s">> :> <<"S", "a", "n", "s", " ", "S", "e", "r", "i", "f">>))

FontSizeLabels == Object((<<"s", "m">> :> <<"S", "m", "a", "l", "l">>) @@ (<<"l", "g">> :> <<"L", "a", "r", "g", "e">>))

TypographyDecls ==
  {Decl(FONT_FAMILY, <<"i", "n", "t", "e", "r">>, <<"\"", "I", "n", "t", "e", "r", "\"">>),
   Decl(FONT_SIZE, <<"x", "s">>, <<"0", ".", "7", "5", "r", "e", "m">>),
   Decl(FONT_SIZE, <<"s", "m">>, <<"1", "r", "e", "m">>),
   Decl(FONT_SIZE, <<"p", "x">>, <<"1", "6", "p", "x">>),
   Decl(FONT_SIZE, <<"e", "m">>, <<"1", "e", "m">>),
   Decl(FONT_SIZE, <<"X", "L">>, <<"1", ".", "5", "r", "e", "m">>),
   Decl(FONT_SIZE, <<"n">>, <<"2", "0">>),
   Decl(FONT_SIZE, <<"s", "h", "a", "d", "o", "w", "-", "s", "m">>, <<"0", " ", "1", "p", "x">>),
   Decl(FONT_SIZE, <<"s", "m", "-", "-", "l", "i", "n", "e", "-", "h", "e", "i", "g", "h", "t">>, <<"1", ".", "2", "5">>)}

\* the plugin of wordpressThemeJson({ fontLabels, fontSizeLabels }) or of
\* wordpressThemeJson({}), and a block of one to MaxDecls distinct declarations
InitTypography ==
  /\ \E labels \in {<<Undefined, Undefined>>, <<FontLabels, FontSizeLabels>>} :
       Created([DefaultOptions EXCEPT !.fontLabels = labels[1], !.fontSizeLabels = labels[2]])
  /\ \E n \in 1..MaxDecls :
       \E decls \in [1..n -> TypographyDecls] :
         /\ \A i, j \in 1..n : i # j => decls[i] # decls[j]
         /\ cssSource = Sheet(<<"\n">>, ThemeOpener, decls, <<"}">>)
  /\ baseFile = BareBase
  /\ imported = Returned(LegacyConfig)
  /\ dependencies = <<>> /\ wpCall = WpOutcome("none", <<>>, Undefined, Undefined, <<>>)
  /\ page = NoPage

SpecTypography == InitTypography /\ [][NextExtract]_vars

(***************************************************************************)
(* The inputs of wordpressPlugin: module sources and ids                    *)
(***************************************************************************)
\* import statements by kind; a binding is <<imported name, local name>>
ImportStatements ==
  { [kind |-> "named", quote |-> "'", module |-> <<"@", "w", "o", "r", "d", "p", "r", "e", "s", "s", "/", "e", "l", "e", "m", "e", "n", "t">>,
     bindings |-> <<<<<<"u", "s", "e", "S", "t", "a", "t", "e">>, <<"u", "s", "e", "S", "t", "a", "t", "e">>>>, <<<<"u", "s", "e", "E", "f", "f", "e", "c", "t">>, <<"e", "f", "f", "e", "c", "t">>>>>>],
    [kind |-> "default", quote |-> "\"", module |-> <<"@", "w", "o", "r", "d", "p", "r", "e", "s", "s", "/", "a", "p", "i", "-", "f", "e", "t", "c", "h">>,
     bindings |-> <<<<<<"d", "e", "f", "a", "u", "l", "t">>, <<"a", "p", "i", "F", "e", "t", "c", "h">>>>>>],
    [kind |-> "namespace", quote |-> "'", module |-> <<"@", "w", "o", "r", "d", "p", "r", "e", "s", "s", "/", "e", "l", "e", "m", "e", "n", "t">>,
     bindings |-> <<<<<<"*">>, <<"e", "l", "e", "m", "e", "n", "t">>>>>>],
    [kind |-> "side", quote |-> "'", module |-> <<"@", "w", "o", "r", "d", "p", "r", "e", "s", "s", "/", "a", "p", "i", "-", "f", "e", "t", "c", "h">>,
     bindings |-> <<>>],
    [kind |-> "default", quote |-> "'", module |-> <<"r", "e", "a", "c", "t">>,
     bindings |-> <<<<<<"d", "e", "f", "a", "u", "l", "t">>, <<"R", "e", "a", "c", "t">>>>>>],
    [kind |-> "named", quote |-> "'", module |-> <<"@", "w", "o", "r", "d", "p", "r", "e", "s", "s", "/", "i", "c", "o", "n", "s">>,
     bindings |-> <<<<<<"I", "c", "o", "n">>, <<"I", "c", "o", "n">>>>>>] }

\* the code of a module source: the text of each import statement, as a
\* module writes it, and what follows it
SourceCode(source) ==
  LET ImportText(statement) ==
        <<"i", "m", "p", "o", "r", "t", " ">>
          \o (IF statement.kind = "named"
              THEN <<"{", " ">>
                     \o Join([i \in DOMAIN statement.bindings |->
                                IF statement.bindings[i][1] = statement.bindings[i][2]
                                THEN statement.bindings[i][1]
                                ELSE statement.bindings[i][1] \o <<" ", "a", "s", " ">> \o statement.bindings[i][2]],
                             <<",", " ">>)
                     \o <<" ", "}", " ", "f", "r", "o", "m", " ">>
              ELSE IF statement.kind = "namespace"
              THEN <<"*", " ", "a", "s", " ">> \o statement.bindings[1][2] \o <<" ", "f", "r", "o", "m", " ">>
              ELSE IF statement.kind = "default"
              THEN statement.bindings[1][2] \o <<" ", "f", "r", "o", "m", " ">>
              ELSE <<>>)
          \o <<statement.quote>> \o statement.module \o <<statement.quote>>
  IN Cat([i \in DOMAIN source |-> ImportText(source[i].statement) \o source[i].separator])

\* The calls of transform.  A module source is one import statement followed
\* by `;` and a line break, by a line break alone, or by a line break and an
\* indentation, and then possibly a second one (a named or default import of
\* a resolvable package).  Every source is transformed as test.tsx, and the
\* sources of one statement ended by `;` also under an unsupported id and as
\* the editor entry point
TransformCalls ==
  LET Lines == {[statement |-> statement, separator |-> separator] :
                  statement \in ImportStatements,
                  separator \in {<<";", "\n">>, <<"\n">>, <<"\n", " ", " ">>}}
      Sources ==
        {<<line>> : line \in Lines}
          \cup {<<first, last>> : first \in Lines,
                                 last \in {line \in Lines :
                                             /\ line.separator = <<";", "\n">>
                                             /\ line.statement.kind \in {"named", "default"}
                                             /\ defaultRequestToHandle(line.statement.module) # Null}}
  IN {[source |-> source, id |-> JStr(<<"t", "e", "s", "t", ".", "t", "s", "x">>)] : source \in Sources}
       \cup {[source |-> source, id |-> id] :
               source \in {one \in Sources : Len(one) = 1 /\ one[1].separator = <<";", "\n">>},
               id \in {JStr(<<"t", "e", "s", "t", ".", "m", "d">>),
                       JStr(<<"s", "r", "c", "/", "e", "d", "i", "t", "o", "r", ".", "j", "s">>)}}

\* the ids resolveId and external are called with
RequestIds ==
  {JStr(<<"@", "w", "o", "r", "d", "p", "r", "e", "s", "s", "/", "e", "l", "e", "m", "e", "n", "t">>), JStr(<<"@", "w", "o", "r", "d", "p", "r", "e", "s", "s", "/", "a", "p", "i", "-", "f", "e", "t", "c", "h">>),
   JStr(<<"@", "w", "o", "r", "d", "p", "r", "e", "s", "s", "/", "i", "c", "o", "n", "s">>), JStr(<<"@", "w", "o", "r", "d", "p", "r", "e", "s", "s", "/", "d", "a", "t", "a", "v", "i", "e", "w", "s">>),
   JStr(<<"r", "e", "a", "c", "t">>), JStr(<<"@", "e", "m", "o", "t", "i", "o", "n", "/", "r", "e", "a", "c", "t">>), JStr(<<".", "/", "l", "o", "c", "a", "l", "-", "f", "i", "l", "e">>),
   Null, Undefined}

\* wordpressPlugin() with the default configuration
InitWordPress ==
  /\ page = NoPage
  /\ dependencies = <<>>
  /\ wpCall = WpOutcome("none", <<>>, Undefined, Undefined, <<>>)
  /\ config = DefaultOptions
  /\ baseFile = BareBase
  /\ imported = Returned(LegacyConfig)
  /\ cssSource = NoSheet
  /\ cssContent = Null
  /\ resolvedTailwindConfig = Undefined
  /\ call = NoCall

NextWordPress ==
  \/ \E id \in RequestIds \cup {[t |-> "number", v |-> <<"1", "2", "3">>]} : External(id)
  \/ \E id \in RequestIds : ResolveId(id)
  \/ \E c \in TransformCalls :
       WpTransform(c.source, c.id, transform(SourceCode(c.source), c.id.v, dependencies))
  \/ WpGenerateBundle

SpecWordPress == InitWordPress /\ [][NextWordPress]_vars

(***************************************************************************)
(* The inputs of the editor page: update payloads and pages                 *)
(***************************************************************************)
\* update payloads of up to two updates
Payloads ==
  LET Updates == {[type |-> "css-update", path |-> <<"/", "e", "d", "i", "t", "o", "r", ".", "c", "s", "s">>],
                  [type |-> "css-update", path |-> <<"/", "a", "p", "p", ".", "c", "s", "s">>],
                  [type |-> "js-update", path |-> <<"/", "e", "d", "i", "t", "o", "r", ".", "j", "s">>]}
  IN {<<>>} \cup {<<update>> : update \in Updates}
       \cup {<<first, second>> : first \in Updates, second \in Updates}

\* the editor page as it was loaded, with hmrCode in the editor entry point
InitHmr ==
  /\ \E iframe \in {"none", "detached", "loaded"} :
       \E styles \in {<<>>, <<<<"b", "o", "d", "y", "{", "}">>>>, <<<<"@", "i", "m", "p", "o", "r", "t", " ", "u", "r", "l", "(", "'", "/", "e", "d", "i", "t", "o", "r", ".", "c", "s", "s", "'", ")">>>>,
                      <<<<"b", "o", "d", "y", "{", "}">>, <<"@", "i", "m", "p", "o", "r", "t", " ", "u", "r", "l", "(", "'", "/", "e", "d", "i", "t", "o", "r", ".", "c", "s", "s", "'", ")">>>>,
                      <<<<"@", "i", "m", "p", "o", "r", "t", " ", "u", "r", "l", "(", "'", "/", "e", "d", "i", "t", "o", "r", ".", "c", "s", "s", "'", ")">>, <<"/", "*", " ", "e", "d", "i", "t", "o", "r", ".", "c", "s", "s", " ", "*", "/">>>>} :
         page = [iframe |-> iframe, styles |-> styles, payload |-> <<>>, reloaded |-> FALSE]
  /\ dependencies = <<>>
  /\ wpCall = WpOutcome("transform", <<>>, JStr(<<"s", "r", "c", "/", "e", "d", "i", "t", "o", "r", ".", "j", "s">>),
                        transform(<<>>, <<"s", "r", "c", "/", "e", "d", "i", "t", "o", "r", ".", "j", "s">>, <<>>).value, <<>>)
  /\ config = DefaultOptions
  /\ baseFile = BareBase
  /\ imported = Returned(LegacyConfig)
  /\ cssSource = NoSheet
  /\ cssContent = Null
  /\ resolvedTailwindConfig = Undefined
  /\ call = NoCall

NextHmr == \E payload \in Payloads, timestamp \in {<<"1">>, <<"2">>} : BeforeUpdate(payload, timestamp)

SpecHmr == InitHmr /\ [][NextHmr]_vars

(***************************************************************************)
(* What the properties read off a state                                     *)
(***************************************************************************)
\* the stored CSS is the text of cssSource
Stored == cssContent.t = "string" /\ cssContent.v = Render(cssSource)

\* the latest call was generateBundle on the stored text of cssSource
Bundled == call.hook = "generateBundle" /\ Stored

\* the text written between the opener and the text after the body
BodyText(sheet) == Cat([i \in 1..Len(sheet.decls) |-> RenderDecl(sheet.decls[i])])

\* the block of the sheet opens at the first character of the file
AtOffset0(sheet) == sheet.before = <<>> /\ sheet.opener # <<>>

\* generateBundle called emitFile
Emitted == call.hook = "generateBundle" /\ call.emitted # <<>>

\* the document handed to emitFile, as its reader parses it
Doc == call.emitted[1].source

Categories == {"colors", "fontFamilies", "fontSizes"}

Disabled(category) ==
  IF category = "colors" THEN config.disableTailwindColors
  ELSE IF category = "fontFamilies" THEN config.disableTailwindFonts
  ELSE config.disableTailwindFontSizes

\* settings.color.palette, settings.typography.fontFamilies or
\* settings.typography.fontSizes of a document: an array, or undefined
ArrayOf(doc, category) ==
  IF category = "colors" THEN Prop(Prop(Prop(doc, "settings"), "color"), "palette")
  ELSE Prop(Prop(Prop(doc, "settings"), "typography"), category)

\* the entries a category of the base document holds
BaseEntries(category) == OrEmpty(ArrayOf(baseFile, category))

\* the entries of a category the hook took from the block it worked on
BlockEntries(category) ==
  IF category = "colors" THEN BlockColorEntries(config.shadeLabels, call.themeContent)
  ELSE IF category = "fontFamilies" THEN BlockFontFamilyEntries(call.themeContent)
  ELSE BlockFontSizeEntries(call.themeContent)

\* the entries of a category the hook took from the loaded legacy config
ConfigEntries(category) ==
  IF category = "colors" THEN ConfigColorEntries(config.shadeLabels, resolvedTailwindConfig)
  ELSE IF category = "fontFamilies" THEN ConfigFontFamilyEntries(resolvedTailwindConfig)
  ELSE ConfigFontSizeEntries(resolvedTailwindConfig)

(***************************************************************************)
(* C1, C2: extractThemeContent                                              *)
(***************************************************************************)
\* C1: for every stylesheet holding a properly closed theme block, at any
\* offset, extractThemeContent returns exactly the text between the opener's
\* brace and its matching closing brace; braces in strings and comments are
\* not counted.
C1_ReturnsBlockAtAnyOffset ==
  (Bundled /\ cssSource.after \in ClosingAfters) =>
    (call.t = "returned" /\ call.themeContent = JStr(BodyText(cssSource)))

\* a closed block with braces in a string, at the first character of the
\* file, for which extractThemeContent returned null
C1_BlockAtOffset0Ignored ==
  /\ Bundled /\ cssSource.after \in ClosingAfters /\ AtOffset0(cssSource)
  /\ \E i \in DOMAIN cssSource.decls : cssSource.decls[i] = Piece(<<"'", "}", "'">>)
  /\ call.t = "returned" /\ call.themeContent = Null

\* C2: when an opener is matched and the brace depth never returns to 0,
\* extractThemeContent throws `Unclosed <opener> block - missing closing
\* brace` and generateBundle rejects with that error; no text is returned.
C2_UnclosedBlockThrows ==
  (Bundled /\ cssSource.opener # <<>> /\ cssSource.after \in OpenAfters) =>
    /\ call.t = "threw"
    /\ call.message = <<"U", "n", "c", "l", "o", "s", "e", "d", " ">> \o Trim(cssSource.opener)
                        \o <<" ", "b", "l", "o", "c", "k", " ", "-", " ", "m", "i", "s", "s", "i", "n", "g", " ", "c", "l", "o", "s", "i", "n", "g", " ", "b", "r", "a", "c", "e">>
    /\ call.emitted = <<>>

\* an unclosed block at the first character of the file: generateBundle
\* returned without an error
C2_UnclosedAtOffset0Silent ==
  /\ Bundled /\ cssSource.after \in OpenAfters /\ AtOffset0(cssSource)
  /\ call.t = "returned" /\ call.themeContent = Null /\ call.emitted = <<>>

(***************************************************************************)
(* C3 to C6: the emitted document                                           *)
(***************************************************************************)
\* the stored CSS holds no theme block: nothing is stored, or the stored
\* stylesheet has no opener
NoBlockStored == cssContent = Null \/ (Stored /\ cssSource.opener = <<>>)

\* C3: when the stored CSS holds no theme block and no legacy config was
\* supplied, generateBundle never calls emitFile.
C3_NothingEmittedWithoutSources ==
  (call.hook = "generateBundle" /\ NoBlockStored /\ config.tailwindConfig = Undefined)
    => call.emitted = <<>>

\* generateBundle read a base document with entries, found a stylesheet
\* without a block and no config, and returned without emitting
C3_ReturnedWithoutEmitting ==
  /\ Bundled /\ cssSource.opener = <<>> /\ config.tailwindConfig = Undefined
  /\ baseFile = FullBase
  /\ call.t = "returned" /\ call.emitted = <<>>

\* C4: for each enabled category the emitted array is the base document's
\* array in its order, followed by the block-sourced and then the
\* config-sourced entries; nothing is removed, reordered or de-duplicated.
C4_BaseThenBlockThenConfig ==
  Emitted =>
    \A category \in Categories :
      ~Disabled(category) =>
        ArrayOf(Doc, category)
          = List(BaseEntries(category) \o BlockEntries(category) \o ConfigEntries(category))

\* an emitted palette made of a base entry, block entries and config entries
\* in which two entries have the same slug
C4_AppendedWithEqualSlug ==
  /\ Emitted /\ ~Disabled("colors")
  /\ BaseEntries("colors") # <<>> /\ BlockEntries("colors") # <<>>
  /\ ConfigEntries("colors") # <<>>
  /\ Len(ArrayOf(Doc, "colors").v)
       = Len(BaseEntries("colors")) + Len(BlockEntries("colors")) + Len(ConfigEntries("colors"))
  /\ \E i, j \in DOMAIN ArrayOf(Doc, "colors").v :
        i < j /\ ArrayOf(Doc, "colors").v[i].slug = ArrayOf(Doc, "colors").v[j].slug

\* C5: in every emitted document, for every category and every setting of the
\* disable switches, each entry of the base document's array is still present.
C5_BaseEntriesKept ==
  Emitted =>
    \A category \in Categories :
      \A i \in DOMAIN BaseEntries(category) :
        \E j \in DOMAIN OrEmpty(ArrayOf(Doc, category)) :
          OrEmpty(ArrayOf(Doc, category))[j] = BaseEntries(category)[i]

\* an emitted document without the palette the base document had
C5_BasePaletteDropped ==
  /\ Emitted /\ Disabled("colors")
  /\ BaseEntries("colors") # <<>>
  /\ ArrayOf(Doc, "colors") = Undefined

\* the document generateBundle emits when the switch of a category is off
\* and everything else is the same
DocWithEnabled(category) ==
  generateBundle(
    IF category = "colors" THEN [config EXCEPT !.disableTailwindColors = FALSE]
    ELSE IF category = "fontFamilies" THEN [config EXCEPT !.disableTailwindFonts = FALSE]
    ELSE [config EXCEPT !.disableTailwindFontSizes = FALSE],
    cssContent, resolvedTailwindConfig, baseFile).emitted[1].source

\* the field a category's switch governs: settings.color,
\* settings.typography.fontFamilies, settings.typography.fontSizes
FieldPresent(doc, category) ==
  IF category = "colors" THEN "color" \in DOMAIN Prop(doc, "settings").v
  ELSE category \in DOMAIN Prop(Prop(doc, "settings"), "typography").v

Generated(category) ==
  Drop(OrEmpty(ArrayOf(Doc, category)), Len(BaseEntries(category)))

\* the declarations of the block with the given prefix, in their order
DeclsOf(prefix) ==
  SelectSeq(cssSource.decls, LAMBDA d : "prefix" \in DOMAIN d /\ d.prefix = prefix)

\* the colour declarations that are no wildcards, the font declarations
\* without a reserved word, the size declarations that are no line heights
KeptDecls(category) ==
  IF category = "colors"
  THEN SelectSeq(DeclsOf(COLOR), LAMBDA d : ~EndsWith(d.suffix, <<"-", "*">>))
  ELSE IF category = "fontFamilies"
  THEN SelectSeq(DeclsOf(FONT_FAMILY),
                 LAMBDA d : \A i \in DOMAIN invalidFontProps : ~Includes(d.suffix, invalidFontProps[i]))
  ELSE SelectSeq(DeclsOf(FONT_SIZE), LAMBDA d : ~Includes(d.suffix, <<"l", "i", "n", "e", "-", "h", "e", "i", "g", "h", "t">>))

\* a document was emitted for the stored block and no config was loaded: the
\* generated entries are the block's
BlockEmitted == Emitted /\ Stored /\ resolvedTailwindConfig = Undefined

\* a shade: a segment made of digits only
IsShade(segment) == segment # <<>> /\ AllIn(segment, DecimalDigits)

\* the suffix has no hyphen, or one hyphen followed by a shade
PlainOrShaded(suffix) ==
  \/ Len(SplitHyphen(suffix)) = 1
  \/ Len(SplitHyphen(suffix)) = 2 /\ IsShade(SplitHyphen(suffix)[2])

\* the name C7 states for such a suffix
NameOfPlainOrShaded(suffix) ==
  IF Len(SplitHyphen(suffix)) = 1 THEN Capitalize(suffix)
  ELSE IF HasShadeLabel(config.shadeLabels, SplitHyphen(suffix)[2])
  THEN config.shadeLabels.v[SplitHyphen(suffix)[2]] \o <<" ">> \o Capitalize(SplitHyphen(suffix)[1])
  ELSE Capitalize(SplitHyphen(suffix)[1]) \o <<" ", "(">> \o SplitHyphen(suffix)[2] \o <<")">>

ManyWords(suffix) ==
  /\ Len(SplitHyphen(suffix)) >= 3
  /\ \A k \in DOMAIN SplitHyphen(suffix) : ~IsShade(SplitHyphen(suffix)[k])

\* the name C8 states: `First (Second Third)`
NameOfManyWords(suffix) ==
  Capitalize(Head(SplitHyphen(suffix)))
    \o <<" ", "(">> \o Join([k \in 1..(Len(SplitHyphen(suffix)) - 1) |-> Capitalize(SplitHyphen(suffix)[k + 1])], <<" ">>) \o <<")">>

\* C8: a colour declaration whose suffix has two or more hyphens and no
\* numeric shade is named by its capitalized first segment followed, in
\* parentheses, by the other segments capitalized and joined by spaces; its
\* slug is the whole suffix.
C8_NamesOfManyWordColours ==
  BlockEmitted =>
    \A i \in DOMAIN KeptDecls("colors") :
      (i \in DOMAIN Generated("colors") /\ ManyWords(KeptDecls("colors")[i].suffix)) =>
        /\ Generated("colors")[i].name = NameOfManyWords(KeptDecls("colors")[i].suffix)
        /\ Generated("colors")[i].slug = ToLowerCase(KeptDecls("colors")[i].suffix)

\* fancy-test-example named `Fancy`
C8_OnlyFirstWordNamed ==
  /\ BlockEmitted
  /\ KeptDecls("colors") # <<>>
  /\ KeptDecls("colors")[1].suffix = <<"f", "a", "n", "c", "y", "-", "t", "e", "s", "t", "-", "e", "x", "a", "m", "p", "l", "e">>
  /\ Generated("colors")[1].name = <<"F", "a", "n", "c", "y">>
  /\ Generated("colors")[1].slug = <<"f", "a", "n", "c", "y", "-", "t", "e", "s", "t", "-", "e", "x", "a", "m", "p", "l", "e">>

\* C9: every entry generated from the block, in the three categories and for
\* every suffix, has the lowercase form of the whole suffix as its slug.
C9_SlugIsLowercaseSuffix ==
  BlockEmitted =>
    \A category \in Categories :
      /\ Len(Generated(category)) = Len(KeptDecls(category))
      /\ \A i \in DOMAIN KeptDecls(category) :
           Generated(category)[i].slug = ToLowerCase(KeptDecls(category)[i].suffix)

\* a colour of three segments with a capital and a shade in the middle,
\* named `Dark (500)`, whose slug is all of the suffix in lowercase, beside
\* a font
C9_SlugOfLongAndCapitalSuffix ==
  /\ BlockEmitted
  /\ KeptDecls("colors") # <<>> /\ KeptDecls("fontFamilies") # <<>>
  /\ KeptDecls("colors")[1].suffix = <<"D", "a", "r", "k", "-", "5", "0", "0", "-", "r", "e", "d">>
  /\ Generated("colors")[1].slug = <<"d", "a", "r", "k", "-", "5", "0", "0", "-", "r", "e", "d">>
  /\ Generated("colors")[1].name = <<"D", "a", "r", "k", " ", "(", "5", "0", "0", ")">>
  /\ Generated("fontFamilies")[1].slug = <<"i", "n", "t", "e", "r">>

\* the words C10 lists
ReservedFontWords ==
  {<<"f", "e", "a", "t", "u", "r", "e", "-", "s", "e", "t", "t", "i", "n", "g", "s">>, <<"v", "a", "r", "i", "a", "t", "i", "o", "n", "-", "s", "e", "t", "t", "i", "n", "g", "s">>, <<"f", "a", "m", "i", "l", "y">>,
   <<"s", "i", "z", "e">>, <<"s", "m", "o", "o", "t", "h", "i", "n", "g">>, <<"s", "t", "y", "l", "e">>, <<"w", "e", "i", "g", "h", "t">>, <<"s", "t", "r", "e", "t", "c", "h">>}

\* the font declarations of the block whose suffix contains none of them
UnreservedFontDecls ==
  SelectSeq(DeclsOf(FONT_FAMILY), LAMBDA d : \A w \in ReservedFontWords : ~Includes(d.suffix, w))

\* C10: a `--font-*` declaration yields a font-family entry if and only if its
\* suffix contains none of the eight reserved words; the entry has the suffix
\* as name, its lowercase form as slug and the trimmed value without quote
\* characters as fontFamily.
C10_FontEntriesOfUnreservedNames ==
  BlockEmitted =>
    Generated("fontFamilies")
      = [i \in DOMAIN UnreservedFontDecls |->
           [name |-> UnreservedFontDecls[i].suffix,
            slug |-> ToLowerCase(UnreservedFontDecls[i].suffix),
            fontFamily |-> SelectSeq(Trim(UnreservedFontDecls[i].value),
                                     LAMBDA c : c # "'" /\ c # "\"")]]

\* a block with a font whose name holds a reserved word among others, which
\* gave no entry, and the font inter, which gave one without its quotes
C10_ReservedDroppedQuotesRemoved ==
  /\ BlockEmitted
  /\ \E i \in DOMAIN cssSource.decls :
       /\ cssSource.decls[i].suffix = <<"i", "n", "t", "e", "r", "-", "w", "e", "i", "g", "h", "t">>
       /\ cssSource.decls[i].prefix = FONT_FAMILY
  /\ Len(Generated("fontFamilies")) = 1
  /\ Generated("fontFamilies")[1] =
       [name |-> <<"i", "n", "t", "e", "r">>, slug |-> <<"i", "n", "t", "e", "r">>, fontFamily |-> <<"I", "n", "t", "e", "r">>]

(***************************************************************************)
(* C11 to C13: names, filter and order of the typography entries            *)
(***************************************************************************)
\* the label the option object holds for the suffix, else the suffix itself
LabelOrSuffix(labels, suffix) ==
  IF labels.t = "object" /\ suffix \in DOMAIN labels.v THEN labels.v[suffix] ELSE suffix

HasLabel(labels, suffix) == labels.t = "object" /\ suffix \in DOMAIN labels.v

\* the entries C11 states for a font declaration and for a size declaration
LabelledFontEntry(d) ==
  [name |-> LabelOrSuffix(config.fontLabels, d.suffix),
   slug |-> ToLowerCase(d.suffix),
   fontFamily |-> SelectSeq(Trim(d.value), LAMBDA c : c # "'" /\ c # "\"")]

LabelledSizeEntry(d) ==
  [name |-> LabelOrSuffix(config.fontSizeLabels, d.suffix),
   slug |-> ToLowerCase(d.suffix),
   size |-> Trim(d.value)]

\* C11: every generated font-family and font-size entry is named by the
\* label configured for its suffix in fontLabels / fontSizeLabels when there
\* is one and by the unchanged suffix otherwise; its slug and its value do
\* not depend on the label.
C11_NameIsLabelElseSuffix ==
  BlockEmitted =>
    /\ \A i \in DOMAIN Generated("fontFamilies") :
         \E k \in DOMAIN DeclsOf(FONT_FAMILY) :
           Generated("fontFamilies")[i] = LabelledFontEntry(DeclsOf(FONT_FAMILY)[k])
    /\ \A i \in DOMAIN Generated("fontSizes") :
         \E k \in DOMAIN DeclsOf(FONT_SIZE) :
           Generated("fontSizes")[i] = LabelledSizeEntry(DeclsOf(FONT_SIZE)[k])

\* labels are configured for the font inter and the size sm, and the emitted
\* entries are named inter and sm
C11_LabelsIgnored ==
  /\ BlockEmitted
  /\ HasLabel(config.fontLabels, <<"i", "n", "t", "e", "r">>) /\ HasLabel(config.fontSizeLabels, <<"s", "m">>)
  /\ \E i \in DOMAIN Generated("fontFamilies") :
       Generated("fontFamilies")[i] =
         [name |-> <<"i", "n", "t", "e", "r">>, slug |-> <<"i", "n", "t", "e", "r">>, fontFamily |-> <<"I", "n", "t", "e", "r">>]
  /\ \E i \in DOMAIN Generated("fontSizes") :
       Generated("fontSizes")[i] =
         [name |-> <<"s", "m">>, slug |-> <<"s", "m">>, size |-> <<"1", "r", "e", "m">>]

\* the `--text-*` declarations whose suffix contains neither word
SizeDecls ==
  SelectSeq(DeclsOf(FONT_SIZE),
            LAMBDA d : ~Includes(d.suffix, <<"l", "i", "n", "e", "-", "h", "e", "i", "g", "h", "t">>) /\ ~Includes(d.suffix, <<"s", "h", "a", "d", "o", "w">>))

\* the indices of the generated font-size entries with the slug of the suffix
SizeEntriesOf(suffix) ==
  {i \in DOMAIN Generated("fontSizes") : Generated("fontSizes")[i].slug = ToLowerCase(suffix)}

\* C12: a `--text-*` declaration whose suffix contains `line-height` or
\* `shadow` yields no font-size entry, and every other `--text-*` declaration
\* of the block yields exactly one, whose size is the trimmed value as written.
C12_SizeEntriesWithoutLineHeightAndShadow ==
  BlockEmitted =>
    /\ Len(Generated("fontSizes")) = Len(SizeDecls)
    /\ \A i \in DOMAIN Generated("fontSizes") :
         /\ ~Includes(Generated("fontSizes")[i].slug, <<"s", "h", "a", "d", "o", "w">>)
         /\ ~Includes(Generated("fontSizes")[i].slug, <<"l", "i", "n", "e", "-", "h", "e", "i", "g", "h", "t">>)
    /\ \A k \in DOMAIN SizeDecls :
         /\ Cardinality(SizeEntriesOf(SizeDecls[k].suffix)) = 1
         /\ \A i \in SizeEntriesOf(SizeDecls[k].suffix) :
              Generated("fontSizes")[i].size = Trim(SizeDecls[k].value)

\* the block declares --text-shadow-sm and --text-sm--line-height, and the
\* emitted font sizes hold an entry for the shadow and none for the line height
C12_ShadowEmittedAsFontSize ==
  /\ BlockEmitted
  /\ \E k \in DOMAIN DeclsOf(FONT_SIZE) : DeclsOf(FONT_SIZE)[k].suffix = <<"s", "m", "-", "-", "l", "i", "n", "e", "-", "h", "e", "i", "g", "h", "t">>
  /\ \E i \in DOMAIN Generated("fontSizes") :
       Generated("fontSizes")[i] =
         [name |-> <<"s", "h", "a", "d", "o", "w", "-", "s", "m">>, slug |-> <<"s", "h", "a", "d", "o", "w", "-", "s", "m">>, size |-> <<"0", " ", "1", "p", "x">>]
  /\ \A i \in DOMAIN Generated("fontSizes") :
       ~Includes(Generated("fontSizes")[i].slug, <<"l", "i", "n", "e", "-", "h", "e", "i", "g", "h", "t">>)

\* the number a string of decimal digits writes
RECURSIVE NatOf(_)
NatOf(digits) ==
  IF digits = <<>> THEN 0
  ELSE 10 * NatOf(SubSeq(digits, 1, Len(digits) - 1))
         + (CHOOSE n \in 0..9 : <<"0", "1", "2", "3", "4", "5", "6", "7", "8", "9">>[n + 1] = digits[Len(digits)])

\* a size as C13 reads it: digits, optionally a point and one or two digits,
\* then rem, em, px or nothing
NumberPart(size) ==
  SubSeq(size, 1, CHOOSE n \in 0..Len(size) :
                    /\ \A i \in 1..n : size[i] \in {"0", "1", "2", "3", "4", "5", "6", "7", "8", "9", "."}
                    /\ n < Len(size) => size[n + 1] \notin {"0", "1", "2", "3", "4", "5", "6", "7", "8", "9", "."})

UnitPart(size) == SubSeq(size, Len(NumberPart(size)) + 1, Len(size))

Measurable(size) ==
  /\ NumberPart(size) # <<>>
  /\ UnitPart(size) \in {<<"r", "e", "m">>, <<"e", "m">>, <<"p", "x">>, <<>>}

\* the number in hundredths
Hundredths(number) ==
  LET whole == SubSeq(number, 1, CHOOSE n \in 0..Len(number) :
                                   /\ \A i \in 1..n : number[i] # "."
                                   /\ n < Len(number) => number[n + 1] = ".")
      fraction == SubSeq(number, Len(whole) + 2, Len(number))
  IN 100 * NatOf(whole)
       + (IF Len(fraction) = 0 THEN 0
          ELSE IF Len(fraction) = 1 THEN 10 * NatOf(fraction)
          ELSE NatOf(SubSeq(fraction, 1, 2)))

\* the resolved magnitude of C13, in hundredths of a pixel
Magnitude(size) ==
  (IF UnitPart(size) \in {<<"r", "e", "m">>, <<"e", "m">>} THEN 16 ELSE 1) * Hundredths(NumberPart(size))

\* the place of the declaration an entry came from
PlaceOf(entry) ==
  CHOOSE k \in DOMAIN DeclsOf(FONT_SIZE) : ToLowerCase(DeclsOf(FONT_SIZE)[k].suffix) = entry.slug

\* C13: the generated font-size entries stand in ascending order of resolved
\* magnitude (rem and em count 16 times their number, px and unitless values
\* their number), and entries of equal magnitude stand in extraction order.
C13_FontSizesAscending ==
  BlockEmitted =>
    \A i, j \in DOMAIN Generated("fontSizes") :
      (i < j /\ Measurable(Generated("fontSizes")[i].size)
             /\ Measurable(Generated("fontSizes")[j].size)) =>
        /\ Magnitude(Generated("fontSizes")[i].size) <= Magnitude(Generated("fontSizes")[j].size)
        /\ Magnitude(Generated("fontSizes")[i].size) = Magnitude(Generated("fontSizes")[j].size)
             => PlaceOf(Generated("fontSizes")[i]) < PlaceOf(Generated("fontSizes")[j])

\* the block declares 1.5rem, then 20, then 0.75rem, and the emitted font
\* sizes stand in that order
C13_EmittedInBlockOrder ==
  /\ BlockEmitted
  /\ Len(Generated("fontSizes")) = 3
  /\ Generated("fontSizes")[1].size = <<"1", ".", "5", "r", "e", "m">>
  /\ Generated("fontSizes")[2].size = <<"2", "0">>
  /\ Generated("fontSizes")[3].size = <<"0", ".", "7", "5", "r", "e", "m">>
  /\ Magnitude(<<"1", ".", "5", "r", "e", "m">>) = 2400 /\ Magnitude(<<"2", "0">>) = 2000
  /\ Magnitude(<<"0", ".", "7", "5", "r", "e", "m">>) = 1200

C15_LoadFailureRejectsAndStoresNothing ==
  imported.t = "threw" =>
    /\ resolvedTailwindConfig = Undefined
    /\ (call.hook = "configResolved" /\ ~Falsy(config.tailwindConfig)) =>
         /\ call.t = "threw"
         /\ call.message = <<"F", "a", "i", "l", "e", "d", " ", "t", "o", " ", "l", "o", "a", "d", " ", "T", "a", "i", "l", "w", "i", "n", "d", " ", "c", "o", "n", "f", "i", "g", " ", "f", "r", "o", "m", " ">>
                             \o config.tailwindConfig.v \o <<":", " ">> \o imported.message
    /\ Emitted =>
         \A category \in Categories :
           ~Disabled(category) =>
             ArrayOf(Doc, category) = List(BaseEntries(category) \o BlockEntries(category))

\* configResolved of a plugin with a config path rejected because the import
\* failed
C15_ConfigResolvedRejected ==
  /\ imported.t = "threw"
  /\ config.tailwindConfig = TailwindPath
  /\ call.hook = "configResolved" /\ call.t = "threw"
  /\ resolvedTailwindConfig = Undefined

(***************************************************************************)
(* C16: the marker fields                                                   *)
(***************************************************************************)
\* C16: every emitted document has the field `__processed__` and has no field
\* `__preprocessed__`, whatever the base document holds.
C16_ProcessedMarkerOnly ==
  Emitted =>
    /\ Doc.t = "object"
    /\ "__processed__" \in DOMAIN Doc.v
    /\ "__preprocessed__" \notin DOMAIN Doc.v

\* a document emitted from a base document that holds both marker fields
C16_OlderMarkerRemoved ==
  /\ Emitted
  /\ baseFile.t = "object" /\ "__preprocessed__" \in DOMAIN baseFile.v
  /\ "__processed__" \in DOMAIN baseFile.v
  /\ "__processed__" \in DOMAIN Doc.v /\ "version" \in DOMAIN Doc.v

(***************************************************************************)
(* C17: errors of generateBundle                                            *)
(***************************************************************************)
\* what extractThemeContent does with the stored CSS
Extraction ==
  IF Falsy(cssContent) THEN Returned(Null) ELSE extractThemeContent(cssContent.v)

\* C17: a generateBundle call hands at most one file to emitFile, and only
\* when the base document was read and parsed and the block was extracted; a
\* base document that cannot be read or parsed and an unclosed block end the
\* call with that error and without a call of emitFile.
C17_EmitsOnceAfterAllStepsOrThrows ==
  call.hook = "generateBundle" =>
    /\ Len(call.emitted) <= 1
    /\ call.t = "threw" => call.emitted = <<>>
    /\ call.emitted # <<>> =>
         ReadBase(baseFile).t = "returned" /\ Extraction.t = "returned"
    /\ ReadBase(baseFile).t = "threw" =>
         call.t = "threw" /\ call.message = ReadBase(baseFile).message
    /\ (ReadBase(baseFile).t = "returned" /\ Extraction.t = "threw") =>
         call.t = "threw" /\ call.message = Extraction.message

\* generateBundle threw on a base document that is no JSON while a complete
\* block was stored and a config was loaded
C17_MalformedBasePropagated ==
  /\ call.hook = "generateBundle" /\ call.t = "threw" /\ call.emitted = <<>>
  /\ baseFile.t = "malformed"
  /\ Extraction.t = "returned" /\ ~Falsy(Extraction.value)
  /\ ~Falsy(resolvedTailwindConfig)

(***************************************************************************)
(* C18: what `external` answers                                             *)
(***************************************************************************)
\* the packages that are bundled instead of being taken from the page
ExemptedPackages == {<<"@", "w", "o", "r", "d", "p", "r", "e", "s", "s", "/", "i", "c", "o", "n", "s">>, <<"@", "w", "o", "r", "d", "p", "r", "e", "s", "s", "/", "d", "a", "t", "a", "v", "i", "e", "w", "s">>}

\* C18: external(id) is true exactly for a string id that starts with
\* `@wordpress/` and is not one of the exempted packages icons and
\* dataviews; it is false for every other string and every non-string
C18_ExternalExceptExempted ==
  wpCall.hook = "external" =>
    wpCall.value = Bool(/\ wpCall.id.t = "string"
                        /\ HasAt(wpCall.id.v, 1, <<"@", "w", "o", "r", "d", "p", "r", "e", "s", "s", "/">>)
                        /\ wpCall.id.v \notin ExemptedPackages)

\* external was asked about an exempted package and answered true
C18_ExemptedMarkedExternal ==
  /\ wpCall.hook = "external"
  /\ wpCall.id.t = "string"
  /\ wpCall.id.v \in ExemptedPackages
  /\ wpCall.value = Bool(TRUE)

(***************************************************************************)
(* C19: the dependency manifest                                             *)
(***************************************************************************)
\* the script handle of a module, as a list: empty for a module that is not
\* a resolvable `@wordpress/*` package
HandleOf(module) ==
  IF HasAt(module, 1, <<"@", "w", "o", "r", "d", "p", "r", "e", "s", "s", "/">>) /\ module \notin ExemptedPackages
  THEN <<<<"w", "p", "-">> \o SubSeq(module, Len(<<"@", "w", "o", "r", "d", "p", "r", "e", "s", "s", "/">>) + 1, Len(module))>>
  ELSE <<>>

\* an id with one of the extensions .js, .jsx, .ts, .tsx
Supported(id) ==
  \E extension \in {<<".", "j", "s">>, <<".", "j", "s", "x">>, <<".", "t", "s">>, <<".", "t", "s", "x">>} : EndsWith(id, extension)

\* the handles a call meets, in the order in which it meets them
Encountered(c) ==
  IF c.hook = "resolveId" /\ c.id.t = "string" THEN HandleOf(c.id.v)
  ELSE IF c.hook = "transform" /\ Supported(c.id.v)
  THEN Cat([i \in DOMAIN c.source |-> HandleOf(c.source[i].statement.module)])
  ELSE <<>>

RECURSIVE FirstEncounters(_, _)
\* handles, followed by those of more that are new, each once
FirstEncounters(handles, more) ==
  IF more = <<>> THEN handles
  ELSE FirstEncounters(IF \E i \in DOMAIN handles : handles[i] = Head(more)
                       THEN handles
                       ELSE Append(handles, Head(more)),
                       Tail(more))

\* JSON.stringify(handles, null, 2)
Manifest(handles) ==
  IF handles = <<>> THEN <<"[", "]">>
  ELSE <<"[">> \o Cat([i \in DOMAIN handles |->
                          (IF i = 1 THEN <<>> ELSE <<",">>) \o <<"\n", " ", " ", "\"">> \o handles[i] \o <<"\"">>])
         \o <<"\n", "]">>

\* C19: every transform and resolveId call appends the handles of the
\* resolvable `@wordpress/*` packages it meets and that are new, in the
\* order of first encounter, and removes none; generateBundle emits the one
\* asset editor.deps.json whose source is the JSON array of these handles
C19_ManifestOfEncounteredHandles ==
  [][/\ dependencies' = FirstEncounters(dependencies, Encountered(wpCall'))
     /\ wpCall'.hook = "generateBundle" =>
          /\ Len(wpCall'.emitted) = 1
          /\ wpCall'.emitted[1].type = "asset"
          /\ wpCall'.emitted[1].name = <<"e", "d", "i", "t", "o", "r", ".", "d", "e", "p", "s", ".", "j", "s", "o", "n">>
          /\ wpCall'.emitted[1].source = Manifest(dependencies')]_vars

\* the handles are those of the calls so far, each once, and what
\* generateBundle emits is their manifest
C19_ManifestOfRecordedHandles ==
  /\ \A i, j \in DOMAIN dependencies : dependencies[i] = dependencies[j] => i = j
  /\ wpCall.hook = "generateBundle" =>
       /\ Len(wpCall.emitted) = 1
       /\ wpCall.emitted[1].name = <<"e", "d", "i", "t", "o", "r", ".", "d", "e", "p", "s", ".", "j", "s", "o", "n">>
       /\ wpCall.emitted[1].source = Manifest(dependencies)

\* transform met the import of a resolvable package and did not record its
\* handle
C19_EncounteredHandleMissing ==
  /\ wpCall.hook = "transform"
  /\ \E i \in DOMAIN Encountered(wpCall) :
       \A j \in DOMAIN dependencies : dependencies[j] # Encountered(wpCall)[i]

(***************************************************************************)
(* C20: what transform makes of the imports                                 *)
(***************************************************************************)
\* the text of an import statement
StatementText(statement) == SourceCode(<<[statement |-> statement, separator |-> <<>>]>>)

\* the global a resolvable package is read from
GlobalOf(module) ==
  IF module = <<"@", "w", "o", "r", "d", "p", "r", "e", "s", "s", "/", "a", "p", "i", "-", "f", "e", "t", "c", "h">> THEN <<"w", "p", ".", "a", "p", "i", "F", "e", "t", "c", "h">>
  ELSE <<"w", "p", ".">> \o SubSeq(module, Len(<<"@", "w", "o", "r", "d", "p", "r", "e", "s", "s", "/">>) + 1, Len(module))

\* the assignments that stand for an import statement of a package
Assignments(statement) ==
  {<<"c", "o", "n", "s", "t", " ">> \o statement.bindings[i][2] \o <<" ", "=", " ">> \o GlobalOf(statement.module)
     \o (IF statement.kind = "named" THEN <<".">> \o statement.bindings[i][1] ELSE <<>>)
     \o <<";">> : i \in DOMAIN statement.bindings}

\* what the claim says of one statement of the source and the output
Transformed(statement, output) ==
  IF HandleOf(statement.module) # <<>>
  THEN /\ ~Includes(output, StatementText(statement))
       /\ \A assignment \in Assignments(statement) : Includes(output, assignment)
  ELSE HasAt(statement.module, 1, <<"@", "w", "o", "r", "d", "p", "r", "e", "s", "s", "/">>)
         \/ Includes(output, StatementText(statement))

\* C20: transform returns null for an id without a supported extension and
\* records no dependency for it; for a supported id the output has, for
\* every import of a resolvable `@wordpress/<pkg>` package, the assignments
\* from the global (`const a = wp.<pkg>.a;`, `const c = wp.<pkg>.b;` for
\* named imports, `const n = wp.<pkg>;` for a namespace or default import,
\* nothing for a side-effect import) and no longer the import, and it still
\* has every import of a non-WordPress module
C20_ImportsBecomeAssignments ==
  [][wpCall'.hook = "transform" =>
       IF ~Supported(wpCall'.id.v)
       THEN wpCall'.value = Null /\ dependencies' = dependencies
       ELSE /\ wpCall'.value.t = "object"
            /\ \A i \in DOMAIN wpCall'.source :
                 Transformed(wpCall'.source[i].statement, wpCall'.value.v["code"].v)]_vars

\* transform returned code that still imports a resolvable package
C20_ResolvableImportLeft ==
  /\ wpCall.hook = "transform"
  /\ wpCall.value.t = "object"
  /\ \E i \in DOMAIN wpCall.source :
       /\ HandleOf(wpCall.source[i].statement.module) # <<>>
       /\ Includes(wpCall.value.v["code"].v, StatementText(wpCall.source[i].statement))

(***************************************************************************)
(* C21: when the editor page reloads                                        *)
(***************************************************************************)
\* the payload has an update that is not a CSS update
HasJavaScriptUpdate(payload) ==
  \E i \in DOMAIN payload : payload[i].type # "css-update"

\* C21: an update payload with a JavaScript (non-CSS) update makes the
\* listener reload the page; the page is left without a reload only for a
\* payload of CSS updates when the editor iframe has a document and a style
\* tag naming editor.css is found in it
C21_JavaScriptUpdateReloads ==
  [][/\ HasJavaScriptUpdate(page'.payload) => page'.reloaded
     /\ ~page'.reloaded =>
          /\ page'.payload # <<>>
          /\ ~HasJavaScriptUpdate(page'.payload)
          /\ page.iframe = "loaded"
          /\ \E i \in DOMAIN page.styles : Includes(page.styles[i], <<"e", "d", "i", "t", "o", "r", ".", "c", "s", "s">>)]_vars

\* a payload with a JavaScript update and a CSS update was applied to the
\* style tag and the page was not reloaded
C21_JavaScriptUpdateWithoutReload ==
  /\ HasJavaScriptUpdate(page.payload)
  /\ ~page.reloaded
  /\ \E i \in DOMAIN page.styles : HasAt(page.styles[i], 1, <<"@", "i", "m", "p", "o", "r", "t", " ", "u", "r", "l", "(", "'", "h", "t", "t", "p", ":", "/", "/", "v", "i", "t", "e">>)

(***************************************************************************)
(* C22: the shade of a suffix of several segments                           *)
(***************************************************************************)
\* the segment behind the last hyphen
LastSegment(suffix) == SplitHyphen(suffix)[Len(SplitHyphen(suffix))]

\* the suffix has two or more hyphens and ends in a shade
ShadedManyWords(suffix) ==
  Len(SplitHyphen(suffix)) >= 3 /\ IsShade(LastSegment(suffix))

\* C22: a colour declaration whose suffix has two or more hyphens and a
\* numeric last segment has that segment as its shade: its name holds the
\* label configured for the shade, or the shade in parentheses when no
\* label is configured
C22_ShadeBehindLastHyphen ==
  BlockEmitted =>
    \A i \in DOMAIN KeptDecls("colors") :
      (i \in DOMAIN Generated("colors") /\ ShadedManyWords(KeptDecls("colors")[i].suffix)) =>
        IF HasShadeLabel(config.shadeLabels, LastSegment(KeptDecls("colors")[i].suffix))
        THEN Includes(Generated("colors")[i].name,
                      config.shadeLabels.v[LastSegment(KeptDecls("colors")[i].suffix)])
        ELSE Includes(Generated("colors")[i].name,
                      <<"(">> \o LastSegment(KeptDecls("colors")[i].suffix) \o <<")">>)

\* red-Dark-500 named `Red`, without its shade
C22_ShadeTakenBehindFirstHyphen ==
  /\ BlockEmitted
  /\ KeptDecls("colors") # <<>>
  /\ KeptDecls("colors")[1].suffix = <<"r", "e", "d", "-", "D", "a", "r", "k", "-", "5", "0", "0">>
  /\ Generated("colors")[1].name = <<"R", "e", "d">>

(***************************************************************************)
(* C23: escapes in the scanned block                                        *)
(***************************************************************************)
\* the texts with a backslash that the stylesheet holds
Escapes(sheet) ==
  {i \in DOMAIN sheet.decls : "text" \in DOMAIN sheet.decls[i] /\ Includes(sheet.decls[i].text, <<"\\">>)}

BaseReadable == baseFile.t \notin {"missing", "malformed"}

\* C24: without a theme block in the stored CSS (also when nothing was
\* stored) and without a legacy config, generateBundle returns normally and
\* emits nothing, whether or not the base document can be read
C24_NothingToGenerateNeverFails ==
  (call.hook = "generateBundle" /\ NoBlockStored /\ config.tailwindConfig = Undefined) =>
    (call.t = "returned" /\ call.emitted = <<>>)

\* What the code does in the case of C24: the base document is read first, so generateBundle
\* returns normally and emits nothing when the base document can be read
\* and parsed, and rejects with the error of the read, emitting nothing,
\* when it cannot
C24_NothingToGenerateAfterBaseRead ==
  (call.hook = "generateBundle" /\ NoBlockStored /\ config.tailwindConfig = Undefined) =>
    /\ call.emitted = <<>>
    /\ IF BaseReadable THEN call.t = "returned"
       ELSE call.t = "threw" /\ call.message = ReadBase(baseFile).message

\* nothing was stored, no config was named, the base file is missing, and
\* generateBundle threw
C24_MissingBaseThrownWithoutSources ==
  /\ call.hook = "generateBundle" /\ cssContent = Null /\ config.tailwindConfig = Undefined
  /\ baseFile = MissingBase
  /\ call.t = "threw" /\ call.emitted = <<>>

(***************************************************************************)
(* C25: the other fields of the base document                               *)
(***************************************************************************)
\* every field of the object base, the ones named in except left out, is a
\* field of doc with the same value
KeptFields(doc, base, except) ==
  base.t = "object" =>
    \A k \in DOMAIN base.v \ except : Prop(doc, k) = base.v[k]

\* the fields of settings.typography the claim is about that are kept
\* whenever a document is emitted
KeptTypography(except) ==
  KeptFields(Prop(Prop(Doc, "settings"), "typography"),
             Prop(Prop(baseFile, "settings"), "typography"),
             {"fontFamilies", "fontSizes"} \cup except)

\* C25: in every emitted document, for every setting of the disable
\* switches, each field of the base document other than the three merged
\* arrays and the marker fields has its base value: the top-level fields,
\* the fields of settings, of settings.color and of settings.typography
C25_OtherBaseFieldsKept ==
  Emitted =>
    /\ KeptFields(Doc, baseFile, {"settings", "__processed__", "__preprocessed__"})
    /\ KeptFields(Prop(Doc, "settings"), Prop(baseFile, "settings"), {"color", "typography"})
    /\ KeptFields(Prop(Prop(Doc, "settings"), "color"),
                  Prop(Prop(baseFile, "settings"), "color"), {"palette"})
    /\ KeptTypography({})

\* What the code keeps in the case of C25: the top-level fields and the
\* fields of settings always, the fields of settings.color unless the
\* colours are disabled, the fields of settings.typography other than
\* customFontSize and defaultFontSizes
C25_FieldsKeptByTheCode ==
  Emitted =>
    /\ KeptFields(Doc, baseFile, {"settings", "__processed__", "__preprocessed__"})
    /\ KeptFields(Prop(Doc, "settings"), Prop(baseFile, "settings"), {"color", "typography"})
    /\ ~Disabled("colors") =>
         KeptFields(Prop(Prop(Doc, "settings"), "color"),
                    Prop(Prop(baseFile, "settings"), "color"), {"palette"})
    /\ KeptTypography({"customFontSize", "defaultFontSizes"})
    /\ Prop(Prop(Prop(Doc, "settings"), "typography"), "customFontSize") = Bool(FALSE)
    /\ Prop(Prop(Prop(Doc, "settings"), "typography"), "defaultFontSizes") = Bool(FALSE)

\* an emitted document, no switch set, whose settings.typography.customFontSize
\* is false while the base document has true
C25_CustomFontSizeOverwritten ==
  /\ Emitted /\ \A category \in Categories : ~Disabled(category)
  /\ Prop(Prop(Prop(baseFile, "settings"), "typography"), "customFontSize") = Bool(TRUE)
  /\ Prop(Prop(Prop(Doc, "settings"), "typography"), "customFontSize") = Bool(FALSE)
  /\ Prop(Prop(Prop(Doc, "settings"), "typography"), "fluid") = Bool(TRUE)

C27_TransformStoresMatchingCode ==
  [][ /\ \A sheet \in LifeSheets, id \in Ids :
           Transform(sheet, id) =>
             /\ call'.hook = "transform" /\ call'.t = "returned"
             /\ call'.value = Null /\ call'.emitted = <<>>
             /\ cssContent' = IF Includes(id, config.cssFile) THEN JStr(Render(sheet))
                              ELSE cssContent
      /\ call'.hook \in {"generateBundle", "configResolved"} => cssContent' = cssContent
      /\ call'.hook = "generateBundle" =>
           call' = generateBundle(config, cssContent, resolvedTailwindConfig, baseFile) ]_vars

\* a transform call returned null and the code of a sheet with a theme
\* block is stored
C27_TransformReturnedNullAndStored ==
  /\ call.hook = "transform" /\ call.t = "returned" /\ call.value = Null
  /\ Stored /\ cssSource.opener # <<>>

(***************************************************************************)
(* C28: a block without entries                                             *)
(***************************************************************************)
\* extractThemeContent found a closed block in the stored CSS
BlockFound == Extraction.t = "returned" /\ Extraction.value.t = "string"

\* no category got an entry from the block or from the legacy config
NothingGenerated ==
  \A category \in Categories :
    BlockEntries(category) = <<>> /\ ConfigEntries(category) = <<>>

\* the document carries the base entries and no other ones in the categories
\* that are not disabled
OnlyBaseEntries ==
  \A category \in Categories :
    ~Disabled(category) => ArrayOf(Doc, category) = List(BaseEntries(category))

\* C28: whenever a closed theme block is found in the stored CSS and the base
\* document can be read, generateBundle emits exactly one document, also for
\* an empty block and for a block without a matching declaration; with
\* nothing generated the document carries the base entries and no new ones
C28_FoundBlockAlwaysEmits ==
  (call.hook = "generateBundle" /\ BaseReadable /\ BlockFound) =>
    /\ Len(call.emitted) = 1
    /\ NothingGenerated => OnlyBaseEntries

\* What the code does in the case of C28: a found block whose content is not
\* empty, or any found block next to a loaded legacy config, emits one
\* document; an empty block without a legacy config emits nothing
C28_EmptyBlockCountsAsNone ==
  (call.hook = "generateBundle" /\ BaseReadable /\ BlockFound) =>
    IF Extraction.value.v = <<>> /\ resolvedTailwindConfig = Undefined
    THEN call.t = "returned" /\ call.emitted = <<>>
    ELSE Len(call.emitted) = 1 /\ (NothingGenerated => OnlyBaseEntries)

\* generateBundle found the empty block of `@theme {}`, read a base document
\* with entries, and emitted nothing
C28_EmptyBlockEmitsNothing ==
  /\ call.hook = "generateBundle" /\ baseFile = FullBase
  /\ Stored /\ cssSource = Sheet(<<"\n">>, ThemeOpener, <<>>, <<"}">>)
  /\ Extraction = Returned(JStr(<<>>))
  /\ call.t = "returned" /\ call.emitted = <<>>

\* generateBundle found a block without a matching declaration and emitted
\* the base entries only
C28_BlockWithoutMatchEmitted ==
  /\ Emitted /\ baseFile = FullBase /\ BlockFound /\ Extraction.value.v # <<>>
  /\ NothingGenerated /\ OnlyBaseEntries
  /\ \A category \in Categories : ~Disabled(category)

(***************************************************************************)
(* C29: declarations in comments                                            *)
(***************************************************************************)
\* the declarations the stored block holds in a comment only
OnlyInComment ==
  { d \in {Decl(COLOR, <<"o", "l", "d">>, <<"#", "f", "f", "f">>)} :
      /\ Includes(BodyText(cssSource), <<"/", "*", " ">> \o RenderDecl(d) \o <<" ", "*", "/">>)
      /\ \A i \in DOMAIN cssSource.decls : cssSource.decls[i] # d }

\* C29: a declaration that stands only inside a comment of the theme block
\* yields no entry in any category of the emitted document
C29_CommentedDeclarationIgnored ==
  (Emitted /\ Stored) =>
    \A d \in OnlyInComment, category \in Categories :
      \A i \in DOMAIN Generated(category) :
        Generated(category)[i].slug # ToLowerCase(d.suffix)

\* a document emitted for a block whose comment holds `--color-old: #fff;`,
\* with the palette entry Old of that declaration before the one of primary
C29_EntryOfCommentedDeclaration ==
  /\ BlockEmitted /\ OnlyInComment # {} /\ ~Disabled("colors")
  /\ BaseEntries("colors") = <<>>
  /\ Len(Generated("colors")) = 2
  /\ Generated("colors")[1] = Entry3("color", <<"O", "l", "d">>, <<"o", "l", "d">>, <<"#", "f", "f", "f">>)
  /\ Generated("colors")[2].slug = <<"p", "r", "i", "m", "a", "r", "y">>

(***************************************************************************)
(* C30: wildcard colours                                                    *)
(***************************************************************************)
\* a wildcard declaration: the bare `*`, or a namespace followed by `-*`
IsWildcard(suffix) == suffix = <<"*">> \/ EndsWith(suffix, <<"-", "*">>)

\* the colour declarations of the stored block that are no wildcards
ConcreteColors == SelectSeq(DeclsOf(COLOR), LAMBDA d : ~IsWildcard(d.suffix))

\* C30: no wildcard colour declaration, namespaced (`--color-red-*`) or bare
\* (`--color-*`), yields a palette entry: the generated palette has one entry
\* for each other colour declaration, and no slug contains `*`
C30_NoWildcardEntry ==
  BlockEmitted =>
    /\ Len(Generated("colors")) = Len(ConcreteColors)
    /\ \A i \in DOMAIN Generated("colors") : ~Includes(Generated("colors")[i].slug, <<"*">>)

\* What the code does in the case of C30: the namespaced wildcards are
\* dropped, the bare one is kept
C30_NamespacedWildcardsDropped ==
  BlockEmitted =>
    /\ Len(Generated("colors")) = Len(KeptDecls("colors"))
    /\ \A i \in DOMAIN Generated("colors") : ~EndsWith(Generated("colors")[i].slug, <<"-", "*">>)

\* a document emitted for a block that begins with `--color-*: initial;`,
\* whose palette begins with an entry of the slug `*`
C30_EntryOfBareWildcard ==
  /\ BlockEmitted
  /\ cssSource.decls[1] = Decl(COLOR, <<"*">>, <<"i", "n", "i", "t", "i", "a", "l">>)
  /\ Generated("colors") # <<>>
  /\ Generated("colors")[1] = Entry3("color", <<"*">>, <<"*">>, <<"i", "n", "i", "t", "i", "a", "l">>)

\* a document emitted for the block of `--color-red-*: initial;` alone, with
\* an empty palette
C30_NamespacedWildcardAlone ==
  /\ BlockEmitted
  /\ cssSource.decls = <<Decl(COLOR, <<"r", "e", "d", "-", "*">>, <<"i", "n", "i", "t", "i", "a", "l">>)>>
  /\ ArrayOf(Doc, "colors") = List(<<>>)

====
